---------------------------- MODULE Spec2Model ----------------------------
(***************************************************************************)
(* The command layer of graph-delta: apply_command over a flat list of     *)
(* Chunk records (crates/graph-delta/src/commands.rs).                     *)
(*                                                                         *)
(* A Chunk is a record [kind, id, attrs, range, extra].  Option<String>    *)
(* fields hold a string or NONE.  `attrs` (Option<String>, the raw         *)
(* attribute text) is held as [some, kv]: kv is the key -> value map the   *)
(* text denotes.  `range` is a pair of usize line numbers.  A usize v is   *)
(* held as the integer r of least magnitude with v = r mod 2^64, so        *)
(* 0 - 1 = -1 stands for usize::MAX; order on usize is ULt/ULe, and an     *)
(* addition or subtraction overflows exactly when r changes sign the       *)
(* wrong way (AddOverflows / SubOverflows).                                *)
(***************************************************************************)
EXTENDS Integers, Sequences, FiniteSets, TLC

VARIABLES chunks, last, steps, overflow_checks, undo, named

vars == <<chunks, last, steps, overflow_checks, undo, named>>

\* Number of apply_command calls in one run of the model.
MaxSteps == 2

NONE == "None"

\* No command applied yet
NoCommand == [action |-> "none"]

-----------------------------------------------------------------------------
(* usize arithmetic                                                        *)

ULt(a, b) ==
    \/ a >= 0 /\ b >= 0 /\ a < b
    \/ a < 0 /\ b < 0 /\ a < b
    \/ a >= 0 /\ b < 0

ULe(a, b) == a = b \/ ULt(a, b)

AddOverflows(a, k) == a < 0 /\ a + k >= 0

SubOverflows(a, k) == a >= 0 /\ a - k < 0

-----------------------------------------------------------------------------
(* Vec<Chunk> helpers, 0-based positions as in the source                  *)

At(s, i) == s[i + 1]

Indices(s) == 0 .. (Len(s) - 1)

SetMin(S) == CHOOSE x \in S : \A y \in S : x <= y

SetMax(S) == CHOOSE x \in S : \A y \in S : x >= y

\* Vec::insert(pos, c)
InsertAt(s, pos, c) ==
    [i \in 1 .. (Len(s) + 1) |->
        IF i <= pos THEN s[i] ELSE IF i = pos + 1 THEN c ELSE s[i - 1]]

\* Vec::remove(pos)
RemoveAt(s, pos) ==
    [i \in 1 .. (Len(s) - 1) |-> IF i <= pos THEN s[i] ELSE s[i + 1]]

EmptyMap == [k \in {} |-> ""]

NoAttrs == [some |-> FALSE, kv |-> EmptyMap]

SomeAttrs(m) == [some |-> TRUE, kv |-> m]

Chunk(kind, id, attrs, range, extra) ==
    [kind |-> kind, id |-> id, attrs |-> attrs, range |-> range, extra |-> extra]

IsNode(c, id) == c.kind = "node" /\ c.id = id

IsEdge(c, from, to) == c.kind = "edge" /\ c.id = from /\ c.extra = to

IsSubgraph(c, id) == c.kind = "subgraph" /\ c.id = id

NodePositions(cs, id) == {i \in Indices(cs) : IsNode(At(cs, i), id)}

EdgePositions(cs, from, to) == {i \in Indices(cs) : IsEdge(At(cs, i), from, to)}

SubgraphPositions(cs, id) == {i \in Indices(cs) : IsSubgraph(At(cs, i), id)}

\* c.range.0 > parent_range.0 && c.range.1 < parent_range.1
StrictlyInside(r, parent_range) ==
    ULt(parent_range[1], r[1]) /\ ULt(r[2], parent_range[2])

\* The outcome of one call: Ok, an Err(..) kind, or a panic of the process
\* (arithmetic overflow under overflow checks), which happens before any
\* mutation.
Outcome(cs, res) == [chunks |-> cs, res |-> res]

Finish(old, new, wrapped, checks) ==
    IF wrapped /\ checks THEN Outcome(old, "Panic") ELSE Outcome(new, "Ok")

-----------------------------------------------------------------------------
(* Insertion points of CreateNode / CreateEdge                              *)

\* parent = Some(parent_name), parent found at parent_pos
ParentInsertion(cs, parent_pos) ==
    LET parent_range == At(cs, parent_pos).range
        inside == {i \in Indices(cs) : StrictlyInside(At(cs, i).range, parent_range)}
        last_child_pos == IF inside = {} THEN parent_pos ELSE SetMax(inside)
        anchor == IF last_child_pos = parent_pos
                    THEN parent_range[1]
                    ELSE At(cs, last_child_pos).range[2]
    IN  [pos |-> last_child_pos + 1, line |-> anchor + 1,
         overflowed |-> AddOverflows(anchor, 1)]

\* parent = None: after the last chunk of this kind, or at the end
TopLevelInsertion(cs, kind) ==
    LET same == {i \in Indices(cs) : At(cs, i).kind = kind}
        insert_pos == IF same = {} THEN Len(cs) ELSE SetMax(same) + 1
    IN  IF insert_pos > 0
          THEN [pos |-> insert_pos, line |-> At(cs, insert_pos - 1).range[2] + 1,
                overflowed |-> AddOverflows(At(cs, insert_pos - 1).range[2], 1)]
          ELSE [pos |-> insert_pos, line |-> 1, overflowed |-> FALSE]

\* created: the new chunk, its range still to be set to (line, line)
InsertCreated(cs, parent, kind, created, checks) ==
    IF parent # NONE /\ SubgraphPositions(cs, parent) = {}
      THEN Outcome(cs, "ParentSubgraphNotFound")
      ELSE LET at == IF parent # NONE
                       THEN ParentInsertion(cs, SetMin(SubgraphPositions(cs, parent)))
                       ELSE TopLevelInsertion(cs, kind)
               new_chunk == [created EXCEPT !.range = <<at.line, at.line>>]
           IN  Finish(cs, InsertAt(cs, at.pos, new_chunk), at.overflowed, checks)

-----------------------------------------------------------------------------
(* apply_command, one operator per DotCommand variant                      *)

\* A create that skips the duplicate check
NodeExistsUnchecked(cs, id) == FALSE

\* chunks.iter().any(|c| c.kind == "node" && c.id.as_ref() == Some(id))
NodeExists(cs, id) == \E i \in Indices(cs) : IsNode(At(cs, i), id)

CreateNode(cs, id, attrs, parent, checks) ==
    IF NodeExists(cs, id)
      THEN Outcome(cs, "NodeAlreadyExists")
      ELSE InsertCreated(cs, parent, "node",
                         Chunk("node", id, attrs, <<0, 0>>, NONE), checks)

UpdateNode(cs, id, attrs) ==
    IF NodePositions(cs, id) = {}
      THEN Outcome(cs, "NodeNotFound")
      ELSE LET pos == SetMin(NodePositions(cs, id))
           IN  IF attrs.some
                 THEN Outcome([cs EXCEPT ![pos + 1].attrs = attrs], "Ok")
                 ELSE Outcome(cs, "Ok")

\* A delete that also removes the edges incident to the node
DeleteNodeCascade(cs, id) ==
    IF NodePositions(cs, id) = {}
      THEN Outcome(cs, "NodeNotFound")
      ELSE LET incident(c) == c.kind = "edge" /\ (c.id = id \/ c.extra = id)
               keep(c) == ~incident(c)
           IN  Outcome(SelectSeq(RemoveAt(cs, SetMin(NodePositions(cs, id))), keep), "Ok")

\* A delete whose lookup forgets the kind test
DeleteNodeAnyKind(cs, id) ==
    LET found == {i \in Indices(cs) : At(cs, i).id = id}
    IN  IF found = {}
          THEN Outcome(cs, "NodeNotFound")
          ELSE Outcome(RemoveAt(cs, SetMin(found)), "Ok")

DeleteNode(cs, id) ==
    IF NodePositions(cs, id) = {}
      THEN Outcome(cs, "NodeNotFound")
      ELSE Outcome(RemoveAt(cs, SetMin(NodePositions(cs, id))), "Ok")

CreateEdge(cs, from, to, attrs, parent, checks) ==
    IF EdgePositions(cs, from, to) # {}
      THEN Outcome(cs, "EdgeAlreadyExists")
      ELSE InsertCreated(cs, parent, "edge",
                         Chunk("edge", from, attrs, <<0, 0>>, to), checks)

\* chunks.last().unwrap().range.1 + 1, or 1 for an empty list
NextLine(cs) ==
    IF cs = <<>>
      THEN [line |-> 1, overflowed |-> FALSE]
      ELSE [line |-> cs[Len(cs)].range[2] + 1,
            overflowed |-> AddOverflows(cs[Len(cs)].range[2], 1)]

\* An update that fails on a missing edge instead of creating it
UpdateEdgeStrict(cs, from, to, attrs, checks) ==
    IF EdgePositions(cs, from, to) # {}
      THEN LET pos == SetMin(EdgePositions(cs, from, to))
           IN  IF attrs.some
                 THEN Outcome([cs EXCEPT ![pos + 1].attrs = attrs], "Ok")
                 ELSE Outcome(cs, "Ok")
      ELSE Outcome(cs, "EdgeNotFound")

\* An upsert that appends the edge and still reports it as not found
UpdateEdgeAppendsAndFails(cs, from, to, attrs, checks) ==
    IF EdgePositions(cs, from, to) # {}
      THEN LET pos == SetMin(EdgePositions(cs, from, to))
           IN  IF attrs.some
                 THEN Outcome([cs EXCEPT ![pos + 1].attrs = attrs], "Ok")
                 ELSE Outcome(cs, "Ok")
      ELSE LET n == NextLine(cs)
           IN  Outcome(Append(cs, Chunk("edge", from, attrs, <<n.line, n.line>>, to)),
                       "EdgeNotFound")

UpdateEdge(cs, from, to, attrs, checks) ==
    IF EdgePositions(cs, from, to) # {}
      THEN LET pos == SetMin(EdgePositions(cs, from, to))
           IN  IF attrs.some
                 THEN Outcome([cs EXCEPT ![pos + 1].attrs = attrs], "Ok")
                 ELSE Outcome(cs, "Ok")
      ELSE LET n == NextLine(cs)
           IN  Finish(cs,
                      Append(cs, Chunk("edge", from, attrs, <<n.line, n.line>>, to)),
                      n.overflowed, checks)

DeleteEdge(cs, from, to) ==
    IF EdgePositions(cs, from, to) = {}
      THEN Outcome(cs, "EdgeNotFound")
      ELSE Outcome(RemoveAt(cs, SetMin(EdgePositions(cs, from, to))), "Ok")

CreateSubgraph(cs, id, parent, checks) ==
    IF id # NONE /\ SubgraphPositions(cs, id) # {}
      THEN Outcome(cs, "SubgraphAlreadyExists")
      ELSE IF parent # NONE
        THEN IF SubgraphPositions(cs, parent) = {}
               THEN Outcome(cs, "ParentSubgraphNotFound")
               ELSE LET parent_pos == SetMin(SubgraphPositions(cs, parent))
                        parent_range == At(cs, parent_pos).range
                        new == Chunk("subgraph", id, NoAttrs,
                                     <<parent_range[1] + 1, parent_range[2] - 1>>, NONE)
                    IN  Finish(cs, InsertAt(cs, parent_pos + 1, new),
                               \/ AddOverflows(parent_range[1], 1)
                               \/ SubOverflows(parent_range[2], 1),
                               checks)
        ELSE LET n == NextLine(cs)
                 new == Chunk("subgraph", id, NoAttrs, <<n.line, n.line + 10>>, NONE)
             IN  Finish(cs, InsertAt(cs, Len(cs), new),
                        n.overflowed \/ AddOverflows(n.line, 10), checks)

\* c.range.0 >= subgraph_range.0 && c.range.1 <= subgraph_range.1
WithinRange(r, subgraph_range) ==
    ULe(subgraph_range[1], r[1]) /\ ULe(r[2], subgraph_range[2])

DeleteSubgraph(cs, id) ==
    IF SubgraphPositions(cs, id) = {}
      THEN Outcome(cs, "SubgraphNotFound")
      ELSE LET subgraph_range == At(cs, SetMin(SubgraphPositions(cs, id))).range
               keep(c) == ~WithinRange(c.range, subgraph_range)
           IN  Outcome(SelectSeq(cs, keep), "Ok")

\* The bare value text of an id_eq chunk, held in attrs under the empty key.
RawValue(v) == SomeAttrs([k \in {""} |-> v])

IdEqPositions(cs, key) ==
    {i \in Indices(cs) : At(cs, i).kind = "id_eq" /\ At(cs, i).id = key}

AttrStmtPositions(cs, target) ==
    {i \in Indices(cs) : At(cs, i).kind = "attr_stmt" /\ At(cs, i).id = target}

SetGraphAttr(cs, key, value) ==
    IF IdEqPositions(cs, key) # {}
      THEN Outcome([cs EXCEPT ![SetMin(IdEqPositions(cs, key)) + 1].attrs =
                                  RawValue(value)], "Ok")
      ELSE Outcome(InsertAt(cs, 0, Chunk("id_eq", key, RawValue(value), <<1, 1>>, NONE)),
                   "Ok")

\* A default that is always put at the head of the list when it is missing
SetDefaultAtHead(cs, target, attrs) ==
    IF AttrStmtPositions(cs, target) # {}
      THEN Outcome([cs EXCEPT ![SetMin(AttrStmtPositions(cs, target)) + 1].attrs = attrs],
                   "Ok")
      ELSE Outcome(InsertAt(cs, 0, Chunk("attr_stmt", target, attrs, <<1, 1>>, NONE)),
                   "Ok")

\* SetNodeDefault (target = "node") and SetEdgeDefault (target = "edge")
SetDefault(cs, target, attrs) ==
    IF AttrStmtPositions(cs, target) # {}
      THEN Outcome([cs EXCEPT ![SetMin(AttrStmtPositions(cs, target)) + 1].attrs = attrs],
                   "Ok")
      ELSE LET stmts == {i \in Indices(cs) : At(cs, i).kind = "attr_stmt"}
               insert_pos == IF stmts = {} THEN 0 ELSE SetMin(stmts) + 1
           IN  Outcome(InsertAt(cs, insert_pos,
                                Chunk("attr_stmt", target, attrs, <<1, 1>>, NONE)),
                       "Ok")

DeleteAttr(cs, key) ==
    IF IdEqPositions(cs, key) = {}
      THEN Outcome(cs, "AttributeNotFound")
      ELSE Outcome(RemoveAt(cs, SetMin(IdEqPositions(cs, key))), "Ok")

apply_command(cs, command, checks) ==
    CASE command.action = "create_node" ->
           CreateNode(cs, command.id, command.attrs, command.parent, checks)
      [] command.action = "update_node" -> UpdateNode(cs, command.id, command.attrs)
      [] command.action = "delete_node" -> DeleteNode(cs, command.id)
      [] command.action = "create_edge" ->
           CreateEdge(cs, command.from, command.to, command.attrs, command.parent, checks)
      [] command.action = "update_edge" ->
           UpdateEdge(cs, command.from, command.to, command.attrs, checks)
      [] command.action = "delete_edge" -> DeleteEdge(cs, command.from, command.to)
      [] command.action = "create_subgraph" ->
           CreateSubgraph(cs, command.id, command.parent, checks)
      [] command.action = "delete_subgraph" -> DeleteSubgraph(cs, command.id)
      [] command.action = "set_graph_attr" -> SetGraphAttr(cs, command.key, command.value)
      [] command.action = "set_node_default" -> SetDefault(cs, "node", command.attrs)
      [] command.action = "set_edge_default" -> SetDefault(cs, "edge", command.attrs)
      [] command.action = "delete_attr" -> DeleteAttr(cs, command.key)

-----------------------------------------------------------------------------
(* Inputs                                                                  *)

NodeIds == {"A", "B"}

SubgraphIds == {"P", "Q"}

AttrOld == SomeAttrs([k \in {"a", "b"} |-> IF k = "a" THEN "1" ELSE "2"])

AttrNew == SomeAttrs([k \in {"b", "c"} |-> IF k = "b" THEN "3" ELSE "4"])

Parents == SubgraphIds \cup {NONE}

GraphKeys == {"rankdir", "size"}

GraphValues == {"LR", "TB"}

\* create_test_chunks()
TestChunks ==
    << Chunk("node", "A", AttrOld, <<1, 1>>, NONE),
       Chunk("node", "B", AttrOld, <<2, 2>>, NONE),
       Chunk("edge", "A", AttrOld, <<3, 3>>, "B") >>

\* digraph { A -> B; }
EdgeOnly == << Chunk("edge", "A", NoAttrs, <<1, 1>>, "B") >>

\* digraph { subgraph P { A; } B; A -> B; }   (all on one line)
OneLine ==
    << Chunk("subgraph", "P", NoAttrs, <<1, 1>>, NONE),
       Chunk("node", "A", NoAttrs, <<1, 1>>, NONE),
       Chunk("node", "B", NoAttrs, <<1, 1>>, NONE),
       Chunk("edge", "A", NoAttrs, <<1, 1>>, "B") >>

\* line 1: digraph {          line 5:     B [a=1 b=2];
\* line 2:   subgraph P {     line 6:   }
\* line 3:     A;             line 7:   }
\* line 4:   subgraph Q {     line 8:   A -> B;      line 9: }
Nested ==
    << Chunk("subgraph", "P", NoAttrs, <<2, 7>>, NONE),
       Chunk("node", "A", NoAttrs, <<3, 3>>, NONE),
       Chunk("subgraph", "Q", NoAttrs, <<4, 6>>, NONE),
       Chunk("node", "B", AttrOld, <<5, 5>>, NONE),
       Chunk("edge", "A", NoAttrs, <<8, 8>>, "B") >>

\* line 1: A;  line 2: B;  line 3: A [a=1 b=2];  line 4: A -> B;  line 5: A -> B;
Repeated ==
    << Chunk("node", "A", NoAttrs, <<1, 1>>, NONE),
       Chunk("node", "B", NoAttrs, <<2, 2>>, NONE),
       Chunk("node", "A", AttrOld, <<3, 3>>, NONE),
       Chunk("edge", "A", NoAttrs, <<4, 4>>, "B"),
       Chunk("edge", "A", NoAttrs, <<5, 5>>, "B") >>

\* line 1: digraph {   line 2: A;   line 3: graph [a=1 b=2];
\* line 4: rankdir=LR;   line 5: }
WithAttrs ==
    << Chunk("node", "A", NoAttrs, <<2, 2>>, NONE),
       Chunk("attr_stmt", "graph", AttrOld, <<3, 3>>, NONE),
       Chunk("id_eq", "rankdir", RawValue("LR"), <<4, 4>>, NONE) >>

\* No two Node chunks share an id, no two Edge chunks share (id, extra)
UniqueNodes(cs) ==
    \A i, j \in Indices(cs) :
        (i # j /\ At(cs, i).kind = "node" /\ At(cs, j).kind = "node")
            => At(cs, i).id # At(cs, j).id

UniqueEdges(cs) ==
    \A i, j \in Indices(cs) :
        (i # j /\ At(cs, i).kind = "edge" /\ At(cs, j).kind = "edge")
            => ~(At(cs, i).id = At(cs, j).id /\ At(cs, i).extra = At(cs, j).extra)

\* Chunk lists parse_dot_to_chunks returns
ParsedLists == { <<>>, TestChunks, EdgeOnly, OneLine, Nested, Repeated, WithAttrs }

-----------------------------------------------------------------------------
(* The state machine: a caller applying commands one by one                *)

InitAny(lists) ==
    /\ chunks \in lists
    /\ last = [res |-> "Ok", cmd |-> NoCommand, before |-> chunks]
    /\ steps = 0
    /\ overflow_checks \in BOOLEAN
    /\ undo = <<>>
    /\ named = <<>>

\* The caller goes on while the process has not panicked
Running == steps < MaxSteps /\ last.res # "Panic"

Apply(command) ==
    /\ LET r == apply_command(chunks, command, overflow_checks)
       IN  /\ chunks' = r.chunks
           /\ last' = [res |-> r.res, cmd |-> command, before |-> chunks]
    /\ steps' = steps + 1
    /\ UNCHANGED named
    /\ undo' = IF /\ command.action = "delete_node"
                  /\ last.cmd.action = "create_node"
                  /\ last.res = "Ok"
                  /\ last.cmd.id = command.id
                 THEN <<last.before>>
                 ELSE <<>>
    /\ UNCHANGED overflow_checks

DoCreateNode ==
    /\ Running
    /\ \E id \in NodeIds, attrs \in {NoAttrs, AttrOld}, parent \in Parents :
        Apply([action |-> "create_node", id |-> id, attrs |-> attrs, parent |-> parent])

DoUpdateNode ==
    /\ Running
    /\ \E id \in NodeIds, attrs \in {NoAttrs, AttrNew} :
        Apply([action |-> "update_node", id |-> id, attrs |-> attrs])

DoDeleteNode ==
    /\ Running
    /\ \E id \in NodeIds : Apply([action |-> "delete_node", id |-> id])

DoCreateEdge ==
    /\ Running
    /\ \E from \in NodeIds, to \in NodeIds, attrs \in {NoAttrs}, parent \in Parents :
        Apply([action |-> "create_edge", attrs |-> attrs, from |-> from, to |-> to,
               parent |-> parent])

DoUpdateEdge ==
    /\ Running
    /\ \E from \in NodeIds, to \in NodeIds, attrs \in {NoAttrs, AttrNew} :
        Apply([action |-> "update_edge", attrs |-> attrs, from |-> from, to |-> to])

DoDeleteEdge ==
    /\ Running
    /\ \E from \in NodeIds, to \in NodeIds :
        Apply([action |-> "delete_edge", from |-> from, to |-> to])

DoCreateSubgraph ==
    /\ Running
    /\ \E id \in SubgraphIds \cup {NONE}, parent \in Parents :
        Apply([action |-> "create_subgraph", id |-> id, parent |-> parent])

DoDeleteSubgraph ==
    /\ Running
    /\ \E id \in SubgraphIds : Apply([action |-> "delete_subgraph", id |-> id])

DoSetGraphAttr ==
    /\ Running
    /\ \E key \in GraphKeys, value \in GraphValues :
        Apply([action |-> "set_graph_attr", key |-> key, value |-> value])

DoSetNodeDefault ==
    /\ Running
    /\ \E attrs \in {AttrOld, AttrNew} : Apply([action |-> "set_node_default", attrs |-> attrs])

DoSetEdgeDefault ==
    /\ Running
    /\ \E attrs \in {AttrOld, AttrNew} : Apply([action |-> "set_edge_default", attrs |-> attrs])

DoDeleteAttr ==
    /\ Running
    /\ \E key \in GraphKeys : Apply([action |-> "delete_attr", key |-> key])

Next ==
    \/ DoCreateNode
    \/ DoUpdateNode
    \/ DoDeleteNode
    \/ DoCreateEdge
    \/ DoUpdateEdge
    \/ DoDeleteEdge
    \/ DoCreateSubgraph
    \/ DoDeleteSubgraph
    \/ DoSetGraphAttr
    \/ DoSetNodeDefault
    \/ DoSetEdgeDefault
    \/ DoDeleteAttr

Init == InitAny(ParsedLists)

Spec == Init /\ [][Next]_vars

\* The same caller, starting from a list with distinct nodes and distinct edges
InitUnique == InitAny({cs \in ParsedLists : UniqueNodes(cs) /\ UniqueEdges(cs)})

SpecUnique == InitUnique /\ [][Next]_vars

-----------------------------------------------------------------------------
(* Properties                                                              *)

IsError(res) == res \notin {"Ok", "Panic"}

InitialLengths == {Len(cs) : cs \in ParsedLists}

\* C1: starting from a list with pairwise distinct Node ids and pairwise
\* distinct Edge (id, extra) pairs, after any sequence of apply_command calls
\* no two Node chunks share an id and no two Edge chunks share (id, extra).
C1_Unique == UniqueNodes(chunks) /\ UniqueEdges(chunks)

\* A node was created, and then a second create of the same id was rejected.
C1_Witness ==
    /\ steps = 2
    /\ last.cmd.action = "create_node"
    /\ last.res = "NodeAlreadyExists"
    /\ Len(chunks) \notin InitialLengths

\* C2: when apply_command returns an error the list is identical to the list
\* before the call, which is the result of the commands applied before it.
C2_ErrorLeavesListUnchanged == IsError(last.res) => chunks = last.before

\* A command failed after an earlier command had changed the list.
C2_Witness ==
    /\ steps = 2
    /\ IsError(last.res)
    /\ Len(chunks) \notin InitialLengths

\* Right-biased union of two attribute maps
Merge(old, new) ==
    [k \in (DOMAIN old) \cup (DOMAIN new) |-> IF k \in DOMAIN new THEN new[k] ELSE old[k]]

\* C3: UpdateNode fails with NodeNotFound when no Node chunk has the id;
\* otherwise the node's attributes become the right-biased union of its old
\* attributes and the new ones.
C3_UpdateNodeMerges ==
    last.cmd.action = "update_node" =>
        LET found == NodePositions(last.before, last.cmd.id)
        IN  IF found = {}
              THEN last.res = "NodeNotFound"
              ELSE /\ last.res = "Ok"
                   /\ At(chunks, SetMin(found)).attrs.kv =
                        Merge(At(last.before, SetMin(found)).attrs.kv, last.cmd.attrs.kv)

C5_NoChunkKeepsDeletedId ==
    (last.cmd.action = "delete_node" /\ last.res = "Ok") =>
        /\ Len(chunks) = Len(last.before) - 1
        /\ \A i \in Indices(chunks) : At(chunks, i).id # last.cmd.id

Mentions(c, id) == c.id = id \/ c.extra = id

\* CreateNode{id} succeeded and DeleteNode{id} followed it and succeeded;
\* undo holds the list before the create.
CreatedThenDeleted == undo # <<>> /\ last.res = "Ok"

\* C6 as stated: CreateNode{id: C} then DeleteNode{id: C} gives back the
\* original list, and no chunk mentions C.
C6_CreateDeleteLeavesNoMention ==
    CreatedThenDeleted =>
        /\ chunks = undo[1]
        /\ \A i \in Indices(chunks) : ~Mentions(At(chunks, i), last.cmd.id)

\* C6 amended: CreateNode{id: C} then DeleteNode{id: C} gives back the
\* original list (same count, same chunks, same order), and no Node chunk
\* has id C.
C6_CreateDeleteRestoresList ==
    CreatedThenDeleted =>
        /\ chunks = undo[1]
        /\ Len(chunks) = Len(undo[1])
        /\ NodePositions(chunks, last.cmd.id) = {}

\* A node was created in a list that mentions its id in an edge, then deleted.
C6_Witness ==
    /\ CreatedThenDeleted
    /\ \E i \in Indices(chunks) : Mentions(At(chunks, i), last.cmd.id)

\* C7: CreateEdge on an existing (from, to) pair fails with EdgeAlreadyExists;
\* UpdateEdge on a missing pair succeeds and appends exactly one Edge chunk
\* (id = from, extra = to, the given attrs); UpdateEdge on an existing pair
\* changes only that chunk's attributes.
C7_EdgeCreateAndUpsert ==
    LET before == last.before
        found == EdgePositions(before, last.cmd.from, last.cmd.to)
    IN  /\ last.cmd.action = "create_edge" =>
              /\ found # {} => (last.res = "EdgeAlreadyExists" /\ chunks = before)
              /\ last.res = "Ok" =>
                    EdgePositions(chunks, last.cmd.from, last.cmd.to) # {}
        /\ last.cmd.action = "update_edge" =>
              /\ last.res = "Ok"
              /\ IF found = {}
                   THEN /\ Len(chunks) = Len(before) + 1
                        /\ SubSeq(chunks, 1, Len(before)) = before
                        /\ chunks[Len(chunks)].kind = "edge"
                        /\ chunks[Len(chunks)].id = last.cmd.from
                        /\ chunks[Len(chunks)].extra = last.cmd.to
                        /\ chunks[Len(chunks)].attrs = last.cmd.attrs
                   ELSE /\ Len(chunks) = Len(before)
                        /\ \A i \in Indices(chunks) :
                             IF i = SetMin(found)
                               THEN At(chunks, i) =
                                      [At(before, i) EXCEPT !.attrs = At(chunks, i).attrs]
                               ELSE At(chunks, i) = At(before, i)

\* UpdateEdge created a missing edge, and an UpdateEdge changed an existing one.
C7_Witness ==
    /\ last.cmd.action = "update_edge"
    /\ last.res = "Ok"
    /\ \/ /\ EdgePositions(last.before, last.cmd.from, last.cmd.to) = {}
          /\ last.before # <<>>
          /\ steps = 2
       \/ /\ EdgePositions(last.before, last.cmd.from, last.cmd.to) # {}
          /\ chunks # last.before

\* The chunks of cs at the positions that satisfy keep, in order
KeepPositions(cs, keep(_)) ==
    LET indexed == [i \in 1 .. Len(cs) |-> <<i - 1, cs[i]>>]
        test(p) == keep(p[1])
        kept == SelectSeq(indexed, test)
    IN  [i \in 1 .. Len(kept) |-> kept[i][2]]

\* C8: DeleteSubgraph removes the first Subgraph chunk S with the id and every
\* chunk whose range is contained in S's range (start > S.start and
\* end < S.end), and no other chunk; without such a Subgraph chunk it fails
\* with SubgraphNotFound.
C8_DeleteSubgraphRemovesNestedOnly ==
    last.cmd.action = "delete_subgraph" =>
        LET before == last.before
            found == SubgraphPositions(before, last.cmd.id)
        IN  IF found = {}
              THEN last.res = "SubgraphNotFound" /\ chunks = before
              ELSE LET s_pos == SetMin(found)
                       keep(i) == /\ i # s_pos
                                  /\ ~StrictlyInside(At(before, i).range,
                                                     At(before, s_pos).range)
                   IN  last.res = "Ok" /\ chunks = KeepPositions(before, keep)

\* The chunk a successful create inserts, given where it must land
CreatedChunkIs(c) ==
    IF last.cmd.action = "create_node"
      THEN c.kind = "node" /\ c.id = last.cmd.id /\ c.extra = NONE
      ELSE c.kind = "edge" /\ c.id = last.cmd.from /\ c.extra = last.cmd.to

AlreadyThere ==
    IF last.cmd.action = "create_node"
      THEN NodePositions(last.before, last.cmd.id) # {}
      ELSE EdgePositions(last.before, last.cmd.from, last.cmd.to) # {}

\* C9: CreateNode/CreateEdge with parent P fail with ParentSubgraphNotFound
\* when no Subgraph chunk has id P; on success the new chunk sits immediately
\* after the last chunk nested in P (or after P itself), its line is one past
\* that anchor, and its range is contained in P's range.
C9_CreatedInParentIsNested ==
    (last.cmd.action \in {"create_node", "create_edge"} /\ last.cmd.parent # NONE) =>
        LET before == last.before
            found == SubgraphPositions(before, last.cmd.parent)
        IN  IF found = {}
              THEN /\ IsError(last.res)
                   /\ ~AlreadyThere => last.res = "ParentSubgraphNotFound"
              ELSE last.res = "Ok" =>
                   LET parent_range == At(before, SetMin(found)).range
                       nested == {i \in Indices(before) :
                                    StrictlyInside(At(before, i).range, parent_range)}
                       anchor_pos == IF nested = {} THEN SetMin(found) ELSE SetMax(nested)
                       anchor_line == IF nested = {}
                                        THEN parent_range[1]
                                        ELSE At(before, anchor_pos).range[2]
                       created == At(chunks, anchor_pos + 1)
                   IN  /\ Len(chunks) = Len(before) + 1
                       /\ CreatedChunkIs(created)
                       /\ created.range = <<anchor_line + 1, anchor_line + 1>>
                       /\ StrictlyInside(created.range, parent_range)

\* b is the line number a - 1, and c the line number a + k, without wrapping
IsPredecessor(b, a) == b = a - 1 /\ ~SubOverflows(a, 1)

IsSum(c, a, k) == c = a + k /\ ~AddOverflows(a, k)

\* C10: CreateSubgraph with an id already used by a Subgraph chunk fails and
\* changes nothing; without an id it passes the duplicate check; with a parent
\* that is absent it fails with ParentSubgraphNotFound; on success with
\* parent P the new chunk has range (P.start + 1, P.end - 1), and with no
\* parent it has range (n, n + 10), n one past the end line of the last chunk
\* (1 for an empty list).
C10_CreateSubgraph ==
    last.cmd.action = "create_subgraph" =>
        LET before == last.before
            id == last.cmd.id
            parent == last.cmd.parent
            duplicate == id # NONE /\ SubgraphPositions(before, id) # {}
            found == SubgraphPositions(before, parent)
        IN  /\ duplicate => (IsError(last.res) /\ chunks = before)
            /\ id = NONE => last.res # "SubgraphAlreadyExists"
            /\ (~duplicate /\ parent # NONE /\ found = {})
                  => last.res = "ParentSubgraphNotFound"
            /\ (last.res = "Ok" /\ parent # NONE) =>
                  LET parent_range == At(before, SetMin(found)).range
                      created == At(chunks, SetMin(found) + 1)
                  IN  /\ created.kind = "subgraph" /\ created.id = id
                      /\ IsSum(created.range[1], parent_range[1], 1)
                      /\ IsPredecessor(created.range[2], parent_range[2])
            /\ (last.res = "Ok" /\ parent = NONE) =>
                  LET created == chunks[Len(chunks)]
                      n == IF before = <<>> THEN 1 ELSE before[Len(before)].range[2] + 1
                  IN  /\ created.kind = "subgraph" /\ created.id = id
                      /\ before # <<>> => IsSum(n, before[Len(before)].range[2], 1)
                      /\ created.range[1] = n
                      /\ IsSum(created.range[2], n, 10)

-----------------------------------------------------------------------------
(* The DSL layer: dsl/interpreter.rs over the Chunk of dot_chunks/parser.rs, *)
(* whose attrs is a HashMap<String, String>, held as a function key -> value *)
(* (EmptyMap for an empty map).                                              *)

\* HashMap::extend: the entries of more replace or add to those of attrs
Extend(attrs, more) ==
    [k \in (DOMAIN attrs) \cup (DOMAIN more) |->
        IF k \in DOMAIN more THEN more[k] ELSE attrs[k]]

\* HashMap::remove: the map without the key
Without(attrs, key) == [k \in (DOMAIN attrs) \ {key} |-> attrs[k]]

\* str::split(','), left to right; an empty string gives one empty piece
RECURSIVE SplitFrom(_, _, _)
SplitFrom(s, start, i) ==
    IF i > Len(s)
      THEN << SubSeq(s, start, Len(s)) >>
      ELSE IF SubSeq(s, i, i) = ","
             THEN << SubSeq(s, start, i - 1) >> \o SplitFrom(s, i + 1, i + 1)
             ELSE SplitFrom(s, start, i + 1)

Split(s) == SplitFrom(s, 1, 1)

\* [String]::join(",")
RECURSIVE Join(_)
Join(parts) ==
    IF parts = <<>> THEN ""
    ELSE IF Len(parts) = 1 THEN parts[1]
    ELSE parts[1] \o "," \o Join(Tail(parts))

\* nodes_str.split(',').map(|s| if s == id { new_id } else { s }).join(",")
ReplaceInList(nodes_str, id, new_id) ==
    LET parts == Split(nodes_str)
    IN  Join([i \in 1 .. Len(parts) |-> IF parts[i] = id THEN new_id ELSE parts[i]])

NodeAdd(cs, id, attrs) == Append(cs, Chunk("node", id, attrs, <<0, 0>>, NONE))

\* The rename of NodeCmd::Update: first Node chunk, every Edge chunk, every
\* Rank chunk's "nodes" entry
Rename(cs, id, new_id) ==
    LET first == IF NodePositions(cs, id) = {} THEN -1 ELSE SetMin(NodePositions(cs, id))
        renamed(i, c) ==
            IF c.kind = "node"
              THEN IF i = first THEN [c EXCEPT !.id = new_id] ELSE c
            ELSE IF c.kind = "edge"
              THEN [c EXCEPT !.id = IF @ = id THEN new_id ELSE @,
                             !.extra = IF @ = id THEN new_id ELSE @]
            ELSE IF c.kind = "rank" /\ "nodes" \in DOMAIN c.attrs
              THEN [c EXCEPT !.attrs = [@ EXCEPT !["nodes"] = ReplaceInList(@, id, new_id)]]
            ELSE c
    IN  [i \in 1 .. Len(cs) |-> renamed(i - 1, cs[i])]

NodeUpdate(cs, id, attrs) ==
    LET has_new_id == "id" \in DOMAIN attrs
        rest == Without(attrs, "id")
        after == IF has_new_id THEN Rename(cs, id, attrs["id"]) ELSE cs
        current_id == IF has_new_id THEN attrs["id"] ELSE id
        found == NodePositions(after, current_id)
    IN  IF DOMAIN rest # {} /\ found # {}
          THEN [after EXCEPT ![SetMin(found) + 1].attrs = Extend(@, rest)]
          ELSE after

\* A delete that leaves the edges of the node in place
NodeDeleteKeepingEdges(cs, id) ==
    LET not_node(c) == ~(c.kind = "node" /\ c.id = id)
    IN  SelectSeq(cs, not_node)

NodeDelete(cs, id) ==
    LET not_node(c) == ~(c.kind = "node" /\ c.id = id)
        not_incident(c) == ~(c.kind = "edge" /\ (c.id = id \/ c.extra = id))
    IN  SelectSeq(SelectSeq(cs, not_node), not_incident)

EdgeAdd(cs, from, to, attrs) == Append(cs, Chunk("edge", from, attrs, <<0, 0>>, to))

EdgeUpdate(cs, from, to, attrs) ==
    IF EdgePositions(cs, from, to) = {}
      THEN cs
      ELSE [cs EXCEPT ![SetMin(EdgePositions(cs, from, to)) + 1].attrs = Extend(@, attrs)]

EdgeDelete(cs, from, to) ==
    LET keep(c) == ~IsEdge(c, from, to)
    IN  SelectSeq(cs, keep)

\* id.starts_with("cluster_")
StartsWithCluster(id) ==
    Len(id) >= Len("cluster_") /\ SubSeq(id, 1, Len("cluster_")) = "cluster_"

\* A normalization that always prepends the prefix
cluster_id_always_prefixed(id) == "cluster_" \o id

\* if id.starts_with("cluster_") { id } else { format!("cluster_{}", id) }
cluster_id(id) == IF StartsWithCluster(id) THEN id ELSE "cluster_" \o id

ClusterAdd(cs, id, attrs) ==
    Append(cs, Chunk("subgraph", cluster_id(id), attrs, <<0, 0>>, NONE))

ClusterUpdate(cs, id, attrs) ==
    LET found == SubgraphPositions(cs, cluster_id(id))
    IN  IF found = {}
          THEN cs
          ELSE [cs EXCEPT ![SetMin(found) + 1].attrs = Extend(@, attrs)]

ClusterDelete(cs, id) ==
    LET keep(c) == ~IsSubgraph(c, cluster_id(id))
    IN  SelectSeq(cs, keep)

\* A Move that puts the node's first chunk right after the cluster's chunk
ClusterMoveReorders(cs, node, cluster) ==
    IF NodePositions(cs, node) = {} \/ SubgraphPositions(cs, cluster_id(cluster)) = {}
      THEN cs
      ELSE LET n == SetMin(NodePositions(cs, node))
               without == RemoveAt(cs, n)
               c == SetMin(SubgraphPositions(without, cluster_id(cluster)))
           IN  InsertAt(without, c + 1, At(cs, n))

\* ClusterCmd::Move { .. } => { }
ClusterMove(cs, node, cluster) == cs

\* GlobalCmd::Set (id "graph"), NodeDefaults ("node"), EdgeDefaults ("edge")
apply_global(cs, id, attrs) ==
    IF AttrStmtPositions(cs, id) # {}
      THEN [cs EXCEPT ![SetMin(AttrStmtPositions(cs, id)) + 1].attrs = Extend(@, attrs)]
      ELSE Append(cs, Chunk("attr_stmt", id, attrs, <<0, 0>>, NONE))

\* RankCmd::Same / Min / Max: kind is "same", "min" or "max"
apply_rank(cs, kind, nodes) ==
    Append(cs, Chunk("rank", kind, [k \in {"nodes"} |-> Join(nodes)], <<0, 0>>, NONE))

apply_dsl(cs, cmd) ==
    CASE cmd.action = "node_add" -> NodeAdd(cs, cmd.id, cmd.attrs)
      [] cmd.action = "node_update" -> NodeUpdate(cs, cmd.id, cmd.attrs)
      [] cmd.action = "node_delete" -> NodeDelete(cs, cmd.id)
      [] cmd.action = "edge_add" -> EdgeAdd(cs, cmd.from, cmd.to, cmd.attrs)
      [] cmd.action = "edge_update" -> EdgeUpdate(cs, cmd.from, cmd.to, cmd.attrs)
      [] cmd.action = "edge_delete" -> EdgeDelete(cs, cmd.from, cmd.to)
      [] cmd.action = "cluster_add" -> ClusterAdd(cs, cmd.id, cmd.attrs)
      [] cmd.action = "cluster_update" -> ClusterUpdate(cs, cmd.id, cmd.attrs)
      [] cmd.action = "cluster_delete" -> ClusterDelete(cs, cmd.id)
      [] cmd.action = "cluster_move" -> ClusterMove(cs, cmd.node, cmd.cluster)
      [] cmd.action = "global" -> apply_global(cs, cmd.id, cmd.attrs)
      [] cmd.action = "rank" -> apply_rank(cs, cmd.id, cmd.nodes)

\* for cmd in cmds { match cmd { .. } }
RECURSIVE apply_commands(_, _)
apply_commands(cs, cmds) ==
    IF cmds = <<>> THEN cs ELSE apply_commands(apply_dsl(cs, Head(cmds)), Tail(cmds))

-----------------------------------------------------------------------------
(* Attribute text: format_dot_attributes and parse_dot_attributes           *)
(* (dot_chunks/parser.rs).  Strings are character sequences: Len, SubSeq    *)
(* and \o work on them one character at a time.                             *)

CharAt(s, i) == SubSeq(s, i, i)

StartsWith(s, c) == Len(s) >= 1 /\ CharAt(s, 1) = c

EndsWith(s, c) == Len(s) >= 1 /\ CharAt(s, Len(s)) = c

\* char::is_alphanumeric, on the characters the model's values use
AlphanumericChars ==
    { "a", "b", "c", "d", "e", "f", "g", "h", "i", "j", "k", "l", "m", "n", "o", "p",
      "q", "r", "s", "t", "u", "v", "w", "x", "y", "z",
      "A", "B", "C", "D", "E", "F", "G", "H", "I", "J", "K", "L", "M", "N", "O", "P",
      "Q", "R", "S", "T", "U", "V", "W", "X", "Y", "Z",
      "0", "1", "2", "3", "4", "5", "6", "7", "8", "9" }

\* v.replace('"', r#"\""#)
RECURSIVE EscapeQuotesFrom(_, _)
EscapeQuotesFrom(v, i) ==
    IF i > Len(v) THEN ""
    ELSE (IF CharAt(v, i) = "\"" THEN "\\\"" ELSE CharAt(v, i)) \o EscapeQuotesFrom(v, i + 1)

EscapeQuotes(v) == EscapeQuotesFrom(v, 1)

\* An escape of backslash, quote, newline and carriage return
RECURSIVE EscapeAllFrom(_, _)
EscapeAllFrom(v, i) ==
    IF i > Len(v) THEN ""
    ELSE (CASE CharAt(v, i) = "\\" -> "\\\\"
            [] CharAt(v, i) = "\"" -> "\\\""
            [] CharAt(v, i) = "\n" -> "\\n"
            [] CharAt(v, i) = "\r" -> "\\r"
            [] OTHER -> CharAt(v, i)) \o EscapeAllFrom(v, i + 1)

\* The rule with backslash, quote, newline and carriage return all escaped
format_value_escaping_all(v) ==
    IF StartsWith(v, "<") /\ EndsWith(v, ">")
      THEN v
    ELSE IF v = "" \/ \E i \in 1 .. Len(v) : CharAt(v, i) \notin AlphanumericChars
      THEN "\"" \o EscapeAllFrom(v, 1) \o "\""
    ELSE v

\* The value text format_dot_attributes writes after `k=`
format_value(v) ==
    IF StartsWith(v, "<") /\ EndsWith(v, ">")
      THEN v
    ELSE IF v = "" \/ \E i \in 1 .. Len(v) : CharAt(v, i) \notin AlphanumericChars
      THEN "\"" \o EscapeQuotes(v) \o "\""
    ELSE v

\* The text of an attribute list, held as key -> value text: the items are
\* joined by ", " in the HashMap's iteration order, which is unspecified
format_dot_attributes(attrs) == [k \in DOMAIN attrs |-> format_value(attrs[k])]

\* str::replace(r#"\""#, r#"""#): matches taken left to right, not overlapping
RECURSIVE UnescapeQuotesFrom(_, _)
UnescapeQuotesFrom(s, i) ==
    IF i > Len(s) THEN ""
    ELSE IF i < Len(s) /\ CharAt(s, i) = "\\" /\ CharAt(s, i + 1) = "\""
      THEN "\"" \o UnescapeQuotesFrom(s, i + 2)
      ELSE CharAt(s, i) \o UnescapeQuotesFrom(s, i + 1)

\* if value.starts_with('"') && value.ends_with('"') {
\*     value = value[1..value.len() - 1].replace(r#"\""#, r#"""#) }
\* (value is the text of a token of the grammar: a quoted one has both quotes)
Unquote(value) ==
    IF StartsWith(value, "\"") /\ EndsWith(value, "\"") /\ Len(value) >= 2
      THEN UnescapeQuotesFrom(SubSeq(value, 2, Len(value) - 1), 1)
      ELSE value

\* parse_dot_attributes over the id_eq items <<key, value text>> of an a_list:
\* a later item replaces an earlier one of the same key
RECURSIVE parse_dot_attributes(_)
parse_dot_attributes(a_list) ==
    IF a_list = <<>>
      THEN EmptyMap
      ELSE LET item == a_list[Len(a_list)]
               rest == parse_dot_attributes(SubSeq(a_list, 1, Len(a_list) - 1))
           IN  Extend(rest, [k \in {item[1]} |-> Unquote(item[2])])

-----------------------------------------------------------------------------
(* The chunk extractor: parse_dot_to_chunks (dot_chunks/parser.rs) over the  *)
(* statements of the parse tree.  A statement carries the pieces the walk   *)
(* reads: a_lists is the sequence of the a_list items of its attr_list,     *)
(* each item <<key, value text>>; span is the line range of its text.       *)

NodeStmt(id, a_lists, span) ==
    [id |-> id, a_lists |-> a_lists, span |-> span, stmt |-> "node_stmt"]

EdgeStmt(from, targets, a_lists, span) ==
    [from |-> from, a_lists |-> a_lists, span |-> span, stmt |-> "edge_stmt",
     targets |-> targets]

SubgraphStmt(id, body, span) ==
    [id |-> id, span |-> span, stmt |-> "subgraph", body |-> body]

IdEqStmt(key, value, span) ==
    [key |-> key, value |-> value, span |-> span, stmt |-> "id_eq"]

AttrStmt(id, a_lists, span) ==
    [id |-> id, a_lists |-> a_lists, span |-> span, stmt |-> "attr_stmt"]

\* inner.next().and_then(|p| p.into_inner().next().map(parse_dot_attributes))
\*      .unwrap_or_default(): the first a_list only
FirstAList(a_lists) ==
    IF a_lists = <<>> THEN EmptyMap ELSE parse_dot_attributes(a_lists[1])

\* An expansion that starts every edge at the statement's source
EdgeStar(from, targets, attrs, range) ==
    [i \in 1 .. Len(targets) |-> Chunk("edge", from, attrs, range, targets[i])]

\* Rule::edge_stmt: (from, t1), then (t[i-1], t[i]) for i in 1..targets.len()
EdgeChain(from, targets, attrs, range) ==
    [i \in 1 .. Len(targets) |->
        Chunk("edge", IF i = 1 THEN from ELSE targets[i - 1], attrs, range, targets[i])]

RECURSIVE walk(_)
RECURSIVE WalkAll(_)

walk(pair) ==
    CASE pair.stmt = "node_stmt" ->
           << Chunk("node", pair.id, FirstAList(pair.a_lists), pair.span, NONE) >>
      [] pair.stmt = "edge_stmt" ->
           EdgeChain(pair.from, pair.targets, FirstAList(pair.a_lists), pair.span)
      [] pair.stmt = "subgraph" ->
           << Chunk("subgraph", pair.id, EmptyMap, pair.span, NONE) >> \o WalkAll(pair.body)
      [] pair.stmt = "id_eq" ->
           << Chunk("id_eq", pair.key, EmptyMap, pair.span, pair.value) >>
      [] pair.stmt = "attr_stmt" ->
           << Chunk("attr_stmt", pair.id, FirstAList(pair.a_lists), pair.span, NONE) >>

WalkAll(stmts) ==
    IF stmts = <<>> THEN <<>> ELSE walk(Head(stmts)) \o WalkAll(Tail(stmts))

\* The file is the statement list of its graph block
parse_dot_to_chunks(file) == WalkAll(file)

\* dot[..offset].matches('\n').count()
RECURSIVE Newlines(_, _)
Newlines(dot, offset) ==
    IF offset = 0 THEN 0
    ELSE Newlines(dot, offset - 1) + (IF CharAt(dot, offset) = "\n" THEN 1 ELSE 0)

\* A line range that stops at the line the span starts on
line_range_of_start(dot, start, end) ==
    << Newlines(dot, start) + 1, Newlines(dot, start) + 1 >>

span_to_line_range(dot, start, end) ==
    << Newlines(dot, start) + 1, Newlines(dot, end) + 1 >>

\* The statements of a parse tree whose spans are byte offsets into dot, with
\* the line range span_to_line_range gives each of them
RECURSIVE Located(_, _)
Located(dot, stmts) ==
    [i \in 1 .. Len(stmts) |->
        LET pair == stmts[i]
            lines == span_to_line_range(dot, pair.span[1], pair.span[2])
        IN  IF pair.stmt = "subgraph"
              THEN SubgraphStmt(pair.id, Located(dot, pair.body), lines)
              ELSE [pair EXCEPT !.span = lines]]

-----------------------------------------------------------------------------
(* The serializer: chunks_to_dot_nested (dot_chunks/parser.rs).  The output *)
(* text is held as its sequence of lines after the `digraph G {` header and *)
(* before the final `}`; a line is [text, indent, chunk]: text says what    *)
(* the line is ("open": `subgraph id {`, "attrs": the `graph [..];` line of *)
(* a subgraph with attributes, "stmt": chunk.to_dot(), "close": `}`),       *)
(* indent counts the four-space units before it, chunk is the chunk the     *)
(* line renders (NoChunk for a closing brace).                              *)

NoChunk == Chunk("", NONE, EmptyMap, <<0, 0>>, NONE)

Line(text, indent, chunk) == [text |-> text, indent |-> indent, chunk |-> chunk]

\* sorted_chunks.sort_by_key(|c| c.range.0): stable, usize order
SortByStart(cs) ==
    LET before(j, i) ==
            \/ ULt(cs[j].range[1], cs[i].range[1])
            \/ cs[j].range[1] = cs[i].range[1] /\ j < i
        rank(i) == Cardinality({j \in 1 .. Len(cs) : before(j, i)})
    IN  [k \in 1 .. Len(cs) |-> cs[CHOOSE i \in 1 .. Len(cs) : rank(i) = k - 1]]

\* The emitted lines and the stack of open blocks, a block being
\* <<id_str, start, end>>
Emitting(stack, out) == [stack |-> stack, out |-> out]

\* A closing loop that forgets the `end != 0` test
RECURSIVE CloseEndedAlsoZero(_, _, _)
CloseEndedAlsoZero(stack, out, start) ==
    IF stack # <<>> /\ ULt(stack[Len(stack)][3], start)
      THEN LET popped == SubSeq(stack, 1, Len(stack) - 1)
           IN  CloseEndedAlsoZero(popped, Append(out, Line("close", Len(popped), NoChunk)),
                                  start)
      ELSE Emitting(stack, out)

\* while let Some((_, _, end)) = subgraph_stack.last() {
\*     if chunk.range.0 > *end && *end != 0 { pop; push "}" } else { break } }
RECURSIVE CloseEnded(_, _, _)
CloseEnded(stack, out, start) ==
    IF stack # <<>> /\ ULt(stack[Len(stack)][3], start) /\ stack[Len(stack)][3] # 0
      THEN LET popped == SubSeq(stack, 1, Len(stack) - 1)
           IN  CloseEnded(popped, Append(out, Line("close", Len(popped), NoChunk)), start)
      ELSE Emitting(stack, out)

\* while !subgraph_stack.is_empty() { pop; push "}" }
RECURSIVE CloseAll(_, _)
CloseAll(stack, out) ==
    IF stack = <<>>
      THEN out
      ELSE LET popped == SubSeq(stack, 1, Len(stack) - 1)
           IN  CloseAll(popped, Append(out, Line("close", Len(popped), NoChunk)))

\* The body of `for chunk in &sorted_chunks`
EmitChunk(stack, out, chunk) ==
    LET closed == CloseEnded(stack, out, chunk.range[1])
        indent == Len(closed.stack) + 1
        id_str == IF chunk.id = NONE THEN "" ELSE chunk.id
    IN  IF chunk.kind = "subgraph"
          THEN Emitting(Append(closed.stack, <<id_str, chunk.range[1], chunk.range[2]>>),
                        IF DOMAIN chunk.attrs # {}
                          THEN closed.out \o << Line("open", indent, chunk),
                                                Line("attrs", indent + 1, chunk) >>
                          ELSE Append(closed.out, Line("open", indent, chunk)))
          ELSE Emitting(closed.stack, Append(closed.out, Line("stmt", indent, chunk)))

RECURSIVE EmitFrom(_, _, _, _)
EmitFrom(sorted_chunks, i, stack, out) ==
    IF i > Len(sorted_chunks)
      THEN CloseAll(stack, out)
      ELSE LET e == EmitChunk(stack, out, sorted_chunks[i])
           IN  EmitFrom(sorted_chunks, i + 1, e.stack, e.out)

chunks_to_dot_nested(cs) == EmitFrom(SortByStart(cs), 1, <<>>, <<>>)

\* chunks_to_complete_dot is a wrapper around chunks_to_dot_nested
chunks_to_complete_dot(cs) == chunks_to_dot_nested(cs)

-----------------------------------------------------------------------------
(* Reading serialized text: the statements the emitted lines spell          *)
(* (Chunk::to_dot) and which value texts are tokens of the grammar.         *)

\* The number of blocks open after the first k lines
RECURSIVE Depth(_, _)
Depth(out, k) ==
    IF k = 0 THEN 0
    ELSE Depth(out, k - 1) + (IF out[k].text = "open" THEN 1
                              ELSE IF out[k].text = "close" THEN -1 ELSE 0)

\* The line that closes the block opened at line s
ClosingLine(out, s) ==
    SetMin({k \in (s + 1) .. Len(out) : Depth(out, k) < Depth(out, s)} \cup {Len(out) + 1})

\* The index of the quote that closes a quoted string whose content starts at
\* i (`\"` is an escape), 0 if there is none
RECURSIVE QuotedEnd(_, _)
QuotedEnd(text, i) ==
    IF i > Len(text) THEN 0
    ELSE IF i < Len(text) /\ CharAt(text, i) = "\\" /\ CharAt(text, i + 1) = "\""
      THEN QuotedEnd(text, i + 2)
    ELSE IF CharAt(text, i) = "\"" THEN i
    ELSE QuotedEnd(text, i + 1)

\* The index of the `>` that balances the `<` an HTML-like string starts
\* with, 0 if there is none
RECURSIVE HtmlEnd(_, _, _)
HtmlEnd(text, i, depth) ==
    IF i > Len(text) THEN 0
    ELSE IF CharAt(text, i) = "<" THEN HtmlEnd(text, i + 1, depth + 1)
    ELSE IF CharAt(text, i) = ">"
      THEN IF depth = 1 THEN i ELSE HtmlEnd(text, i + 1, depth - 1)
    ELSE HtmlEnd(text, i + 1, depth)

\* The text is one identifier: quoted, HTML-like (balanced) or bare
IsValueToken(text) ==
    IF StartsWith(text, "\"") THEN Len(text) >= 2 /\ QuotedEnd(text, 2) = Len(text)
    ELSE IF StartsWith(text, "<") THEN HtmlEnd(text, 1, 0) = Len(text)
    ELSE /\ text # ""
         /\ \A i \in 1 .. Len(text) : CharAt(text, i) \in AlphanumericChars \cup {"_"}

\* The items of a formatted attribute list, in the order they were written
ItemsOf(formatted) ==
    LET keys == CHOOSE q \in [1 .. Cardinality(DOMAIN formatted) -> DOMAIN formatted] :
                    \A a, b \in DOMAIN q : q[a] = q[b] => a = b
    IN  [i \in DOMAIN keys |-> << keys[i], formatted[keys[i]] >>]

\* `[..]` after the statement when the chunk has attributes, nothing otherwise
AttrListOf(attrs) ==
    IF DOMAIN attrs = {} THEN <<>> ELSE << ItemsOf(format_dot_attributes(attrs)) >>

OrUnknown(id) == IF id = NONE THEN "unknown" ELSE id

\* Chunk::to_dot, as the statement its text spells on the lines of span
to_dot(c, span) ==
    CASE c.kind = "node" -> NodeStmt(OrUnknown(c.id), AttrListOf(c.attrs), span)
      [] c.kind = "edge" ->
           EdgeStmt(OrUnknown(c.id), << OrUnknown(c.extra) >>, AttrListOf(c.attrs), span)
      [] c.kind = "attr_stmt" ->
           IF DOMAIN c.attrs # {}
             THEN AttrStmt(IF c.id = NONE THEN "graph" ELSE c.id, AttrListOf(c.attrs), span)
             ELSE NodeStmt(IF c.id = NONE THEN "graph" ELSE c.id, <<>>, span)
      [] c.kind = "id_eq" ->
           IdEqStmt(OrUnknown(c.id), IF c.extra = NONE THEN "\"\"" ELSE c.extra, span)
      [] c.kind = "rank" ->
           LET names == Split(IF "nodes" \in DOMAIN c.attrs THEN c.attrs["nodes"] ELSE "")
           IN  SubgraphStmt(NONE,
                            << IdEqStmt("rank", IF c.id = NONE THEN "same" ELSE c.id, span) >>
                              \o [i \in 1 .. Len(names) |->
                                     NodeStmt("\"" \o names[i] \o "\"", <<>>, span)],
                            span)

\* The statements of lines lo .. hi of the output (line k of the output is
\* line k + 1 of the text, after `digraph G {`)
RECURSIVE StmtsOf(_, _, _)
StmtsOf(out, lo, hi) ==
    IF lo > hi THEN <<>>
    ELSE IF out[lo].text = "open"
      THEN LET close == ClosingLine(out, lo)
               id == out[lo].chunk.id
           IN  << SubgraphStmt(IF id = "" THEN NONE ELSE id,
                               StmtsOf(out, lo + 1, close - 1),
                               << lo + 1, close + 1 >>) >>
                 \o StmtsOf(out, close + 1, hi)
    ELSE IF out[lo].text = "attrs"
      THEN << AttrStmt("graph", AttrListOf(out[lo].chunk.attrs), << lo + 1, lo + 1 >>) >>
             \o StmtsOf(out, lo + 1, hi)
    ELSE << to_dot(out[lo].chunk, << lo + 1, lo + 1 >>) >> \o StmtsOf(out, lo + 1, hi)

\* Every attribute value written in the output is a token of the grammar
TextParses(out) ==
    \A k \in 1 .. Len(out) :
        out[k].text \in {"stmt", "attrs"} =>
            \A key \in DOMAIN out[k].chunk.attrs :
                IsValueToken(format_value(out[k].chunk.attrs[key]))

\* parse_dot_to_chunks(&reconstructed): Err(PestError) when the text does not
\* parse
parse_serialized(out) ==
    IF TextParses(out)
      THEN Outcome(parse_dot_to_chunks(StmtsOf(out, 1, Len(out))), "Ok")
      ELSE Outcome(<<>>, "PestError")

-----------------------------------------------------------------------------
(* The DSL state machine: a caller applying one DslCommand at a time        *)

MapOld == AttrOld.kv

MapNew == AttrNew.kv

\* update_node attributes: none, plain ones, a rename, a rename with another key
NodeUpdateAttrs ==
    { EmptyMap, MapNew,
      [k \in {"id"} |-> "C"],
      [k \in {"id", "c"} |-> IF k = "id" THEN "B" ELSE "4"] }

EdgePairs == { <<"A", "B">>, <<"B", "A">> }

ClusterIds == {"X", "cluster_X"}

RankKinds == {"same", "min", "max"}

\* line 1: digraph G {   line 2: A [a=1, b=2];   line 3: B;
\* line 4: A -> B [a=1, b=2];   line 5: }
DslPlain ==
    << Chunk("node", "A", MapOld, <<2, 2>>, NONE),
       Chunk("node", "B", EmptyMap, <<3, 3>>, NONE),
       Chunk("edge", "A", MapOld, <<4, 4>>, "B") >>

\* line 1: digraph G {   line 2: A;   line 3: A [a=1, b=2];
\* line 4: A -> B -> A;   line 5: }
DslRepeated ==
    << Chunk("node", "A", EmptyMap, <<2, 2>>, NONE),
       Chunk("node", "A", MapOld, <<3, 3>>, NONE),
       Chunk("edge", "A", EmptyMap, <<4, 4>>, "B"),
       Chunk("edge", "B", EmptyMap, <<4, 4>>, "A") >>

\* line 1: digraph G {   line 2: subgraph cluster_X {   line 3: A;   line 4: }
\* line 5: B;   line 6: node [a=1, b=2];   line 7: rankdir=LR;   line 8: }
DslClustered ==
    << Chunk("subgraph", "cluster_X", EmptyMap, <<2, 4>>, NONE),
       Chunk("node", "A", EmptyMap, <<3, 3>>, NONE),
       Chunk("node", "B", EmptyMap, <<5, 5>>, NONE),
       Chunk("attr_stmt", "node", MapOld, <<6, 6>>, NONE),
       Chunk("id_eq", "rankdir", EmptyMap, <<7, 7>>, "LR") >>

\* The text of Nested, parsed by dot_chunks/parser.rs
DslNested ==
    << Chunk("subgraph", "P", EmptyMap, <<2, 7>>, NONE),
       Chunk("node", "A", EmptyMap, <<3, 3>>, NONE),
       Chunk("subgraph", "Q", EmptyMap, <<4, 6>>, NONE),
       Chunk("node", "B", MapOld, <<5, 5>>, NONE),
       Chunk("edge", "A", EmptyMap, <<8, 8>>, "B") >>

DslParsedLists == { <<>>, DslPlain, DslRepeated, DslClustered, DslNested }

InitDsl == InitAny(DslParsedLists)

ApplyDsl(command) ==
    /\ chunks' = apply_commands(chunks, << command >>)
    /\ last' = [res |-> "Ok", cmd |-> command, before |-> chunks]
    /\ steps' = steps + 1
    /\ UNCHANGED named
    /\ undo' = <<>>
    /\ UNCHANGED overflow_checks

DoNodeAdd ==
    /\ Running
    /\ \E id \in NodeIds, attrs \in {EmptyMap, MapNew} :
        ApplyDsl([action |-> "node_add", id |-> id, attrs |-> attrs])

DoNodeUpdate ==
    /\ Running
    /\ \E id \in NodeIds, attrs \in NodeUpdateAttrs :
        ApplyDsl([action |-> "node_update", id |-> id, attrs |-> attrs])

DoNodeDelete ==
    /\ Running
    /\ \E id \in NodeIds : ApplyDsl([action |-> "node_delete", id |-> id])

DoEdgeAdd ==
    /\ Running
    /\ \E pair \in EdgePairs :
        ApplyDsl([action |-> "edge_add", attrs |-> EmptyMap,
                  from |-> pair[1], to |-> pair[2]])

DoEdgeUpdate ==
    /\ Running
    /\ \E pair \in EdgePairs :
        ApplyDsl([action |-> "edge_update", attrs |-> MapNew,
                  from |-> pair[1], to |-> pair[2]])

DoEdgeDelete ==
    /\ Running
    /\ \E pair \in EdgePairs :
        ApplyDsl([action |-> "edge_delete", from |-> pair[1], to |-> pair[2]])

DoClusterAdd ==
    /\ Running
    /\ \E id \in ClusterIds, attrs \in {EmptyMap, MapOld} :
        ApplyDsl([action |-> "cluster_add", id |-> id, attrs |-> attrs])

DoClusterUpdate ==
    /\ Running
    /\ \E id \in ClusterIds :
        ApplyDsl([action |-> "cluster_update", id |-> id, attrs |-> MapNew])

DoClusterDelete ==
    /\ Running
    /\ \E id \in ClusterIds : ApplyDsl([action |-> "cluster_delete", id |-> id])

DoClusterMove ==
    /\ Running
    /\ \E node \in NodeIds, cluster \in ClusterIds :
        ApplyDsl([action |-> "cluster_move", node |-> node, cluster |-> cluster])

DoGlobal ==
    /\ Running
    /\ \E id \in {"graph", "node", "edge"} :
        ApplyDsl([action |-> "global", id |-> id, attrs |-> MapNew])

DoRank ==
    /\ Running
    /\ \E kind \in RankKinds :
        ApplyDsl([action |-> "rank", id |-> kind, nodes |-> << "A", "B" >>])

\* The caller serializes the list it holds; the list is only read
DoSerialize ==
    /\ Running
    /\ last' = [res |-> "Ok", cmd |-> [action |-> "serialize"], before |-> chunks,
                out |-> chunks_to_complete_dot(chunks)]
    /\ steps' = steps + 1
    /\ UNCHANGED named
    /\ undo' = <<>>
    /\ UNCHANGED <<chunks, overflow_checks>>

NextDsl ==
    \/ DoSerialize
    \/ DoNodeAdd
    \/ DoNodeUpdate
    \/ DoNodeDelete
    \/ DoEdgeAdd
    \/ DoEdgeUpdate
    \/ DoEdgeDelete
    \/ DoClusterAdd
    \/ DoClusterUpdate
    \/ DoClusterDelete
    \/ DoClusterMove
    \/ DoGlobal
    \/ DoRank

SpecDsl == InitDsl /\ [][NextDsl]_vars

-----------------------------------------------------------------------------
(* Tool calls: tool_call_to_command (tool.rs).  A JSON value is <<"null">>, *)
(* <<"string", s>> or <<"number", n>>, n the text of the number; params     *)
(* maps every key to its value, <<"null">> for a key the object does not    *)
(* hold (serde_json's Index).  The errors are strings in the code:          *)
(* "Unknown tool: .." is res "UnknownTool", "Missing '..' parameter" is     *)
(* "MissingParameter" and "No attributes to update" is "NoAttributes".      *)

Null == << "null" >>

Str(s) == << "string", s >>

Num(n) == << "number", n >>

\* Value::as_str
as_str(v) == IF v[1] = "string" THEN v[2] ELSE NONE

ToolResult(res, command) == [res |-> res, cmd |-> command]

\* attrs.push(format!(..)) for each of the keys given as a string, then
\* attrs.join(" "): kv holds the value text written for each key
ToolAttrs(params, keys) ==
    LET given == {k \in keys : as_str(params[k]) # NONE}
    IN  IF given = {} THEN NoAttrs
        ELSE SomeAttrs([k \in given |->
                 IF k = "shape" THEN as_str(params[k])
                 ELSE "\"" \o as_str(params[k]) \o "\""])

\* A parent that is never passed on
ParentDropped(params) == NONE

\* params["parent"].as_str().map(|s| s.to_string())
ParentOf(params) == as_str(params["parent"])

tool_call_to_command(tool_name, params) ==
    LET id == as_str(params["id"])
        from == as_str(params["from"])
        to == as_str(params["to"])
    IN  CASE tool_name = "create_node" ->
               IF id = NONE THEN ToolResult("MissingParameter", NoCommand)
               ELSE ToolResult("Ok",
                        [action |-> "create_node", id |-> id,
                         attrs |-> ToolAttrs(params, {"label", "shape", "color"}),
                         parent |-> ParentOf(params)])
          [] tool_name = "update_node" ->
               IF id = NONE THEN ToolResult("MissingParameter", NoCommand)
               ELSE IF ~ToolAttrs(params, {"label", "shape", "color"}).some
                 THEN ToolResult("NoAttributes", NoCommand)
               ELSE ToolResult("Ok",
                        [action |-> "update_node", id |-> id,
                         attrs |-> ToolAttrs(params, {"label", "shape", "color"})])
          [] tool_name = "delete_node" ->
               IF id = NONE THEN ToolResult("MissingParameter", NoCommand)
               ELSE ToolResult("Ok", [action |-> "delete_node", id |-> id])
          [] tool_name = "create_edge" ->
               IF from = NONE \/ to = NONE THEN ToolResult("MissingParameter", NoCommand)
               ELSE ToolResult("Ok",
                        [action |-> "create_edge",
                         attrs |-> ToolAttrs(params, {"label", "color"}),
                         from |-> from, to |-> to, parent |-> ParentOf(params)])
          [] tool_name = "delete_edge" ->
               IF from = NONE \/ to = NONE THEN ToolResult("MissingParameter", NoCommand)
               ELSE ToolResult("Ok", [action |-> "delete_edge", from |-> from, to |-> to])
          [] tool_name = "create_cluster" ->
               IF id = NONE THEN ToolResult("MissingParameter", NoCommand)
               ELSE ToolResult("Ok", [action |-> "create_subgraph", id |-> id, parent |-> NONE])
          [] OTHER -> ToolResult("UnknownTool", NoCommand)

-----------------------------------------------------------------------------
(* DotCommand as JSON (commands.rs): #[serde(tag = "action", rename_all =    *)
(* "snake_case")], Option fields with skip_serializing_if = "Option::is_none".*)
(* A JSON object is a function from the keys it holds to JSON values.  A    *)
(* command is the record the command layer takes: None is NONE for id and   *)
(* parent and NoAttrs for attrs, the attribute text is held as attrs.kv.    *)

\* The variants of enum DotCommand, by the action the command layer matches
VariantName ==
    [ create_node |-> "CreateNode", update_node |-> "UpdateNode",
      delete_node |-> "DeleteNode", create_edge |-> "CreateEdge",
      update_edge |-> "UpdateEdge", delete_edge |-> "DeleteEdge",
      create_subgraph |-> "CreateSubgraph", delete_subgraph |-> "DeleteSubgraph",
      set_graph_attr |-> "SetGraphAttr", set_node_default |-> "SetNodeDefault",
      set_edge_default |-> "SetEdgeDefault", delete_attr |-> "DeleteAttr" ]

\* The fields of a variant that are not Option
RequiredFields(action) ==
    CASE action \in {"create_node", "update_node", "delete_node", "delete_subgraph"} -> {"id"}
      [] action \in {"create_edge", "update_edge", "delete_edge"} -> {"from", "to"}
      [] action = "create_subgraph" -> {}
      [] action = "set_graph_attr" -> {"key", "value"}
      [] action \in {"set_node_default", "set_edge_default"} -> {"attrs"}
      [] action = "delete_attr" -> {"key"}

\* The Option fields of a variant
OptionFields(action) ==
    CASE action \in {"create_node", "create_edge"} -> {"attrs", "parent"}
      [] action \in {"update_node", "update_edge"} -> {"attrs"}
      [] action = "create_subgraph" -> {"id", "parent"}
      [] OTHER -> {}

\* The upper-case letters of the variant names, and char::to_lowercase
UpperChars == {"A", "C", "D", "E", "G", "N", "S", "U"}

ToLower(c) ==
    CASE c = "A" -> "a" [] c = "C" -> "c" [] c = "D" -> "d" [] c = "E" -> "e"
      [] c = "G" -> "g" [] c = "N" -> "n" [] c = "S" -> "s" [] c = "U" -> "u"

\* A renaming that only lowers the case
RECURSIVE lower_case(_)
lower_case(name) ==
    IF name = "" THEN ""
    ELSE LET c == CharAt(name, Len(name))
         IN  lower_case(SubSeq(name, 1, Len(name) - 1))
               \o (IF c \in UpperChars THEN ToLower(c) ELSE c)

\* rename_all = "snake_case" on a variant name: `_` before every upper-case
\* letter but the first, all letters lowered
RECURSIVE snake_case(_)
snake_case(name) ==
    IF name = "" THEN ""
    ELSE LET c == CharAt(name, Len(name))
         IN  snake_case(SubSeq(name, 1, Len(name) - 1))
               \o (IF c \in UpperChars
                     THEN (IF Len(name) > 1 THEN "_" ELSE "") \o ToLower(c)
                     ELSE c)

\* Option::is_none of a field's value
IsNone(field, v) == IF field = "attrs" THEN ~v.some ELSE v = NONE

\* The JSON string of a field's value
FieldJson(field, v) == IF field = "attrs" THEN Str(v.kv) ELSE Str(v)

\* serde_json::to_string(&cmd)
to_json(cmd) ==
    LET written == RequiredFields(cmd.action)
                     \cup {f \in OptionFields(cmd.action) : ~IsNone(f, cmd[f])}
    IN  [f \in {"action"} \cup written |->
            IF f = "action" THEN Str(snake_case(VariantName[cmd.action]))
            ELSE FieldJson(f, cmd[f])]

\* The value of a field read from its JSON string
FieldOf(field, v) == IF field = "attrs" THEN SomeAttrs(v[2]) ELSE v[2]

\* serde_json::from_str::<DotCommand>(&json): the variant whose renamed name is
\* the tag; a missing Option field is None, keys of no field are ignored
from_json(obj) ==
    LET tag == IF "action" \in DOMAIN obj THEN as_str(obj["action"]) ELSE NONE
        known == {a \in DOMAIN VariantName : snake_case(VariantName[a]) = tag}
    IN  IF known = {} THEN ToolResult("JsonError", NoCommand)
        ELSE LET action == CHOOSE a \in known : TRUE
                 strings(fs) == \A f \in fs : f \in DOMAIN obj /\ obj[f][1] = "string"
                 given == {f \in OptionFields(action) : f \in DOMAIN obj /\ obj[f] # Null}
             IN  IF ~strings(RequiredFields(action)) \/ ~strings(given)
                   THEN ToolResult("JsonError", NoCommand)
                   ELSE ToolResult("Ok",
                            [f \in {"action"} \cup RequiredFields(action)
                                     \cup OptionFields(action) |->
                                IF f = "action" THEN action
                                ELSE IF f \in RequiredFields(action) \cup given
                                  THEN FieldOf(f, obj[f])
                                ELSE IF f = "attrs" THEN NoAttrs ELSE NONE])

-----------------------------------------------------------------------------
(* Query tools: execute_query_tool (tool.rs) over the chunk list of the     *)
(* command layer.  The list is borrowed (&[Chunk]) and comes back as it     *)
(* was; the JSON answer is held as a sequence of records.                   *)

QueryResult(res, value) == [res |-> res, value |-> value]

\* chunks.iter().find(|p| p.kind == "subgraph" && p.id == Some(parent_name))
FindParent(cs, parent_name) ==
    IF SubgraphPositions(cs, parent_name) = {}
      THEN NONE
      ELSE At(cs, SetMin(SubgraphPositions(cs, parent_name)))

\* The two filters of list_nodes
Listed(cs, c, parent) ==
    /\ c.kind = "node"
    /\ parent # NONE =>
         /\ SubgraphPositions(cs, parent) # {}
         /\ StrictlyInside(c.range, FindParent(cs, parent).range)

\* json!({ "id": c.id, "attrs": c.attrs })
NodeJson(c) == [id |-> c.id, attrs |-> c.attrs]

\* json!({ "from": c.id, "to": c.extra, "attrs": c.attrs })
EdgeJson(c) == [attrs |-> c.attrs, from |-> c.id, to |-> c.extra]

NodeJsons(cs) == [i \in 1 .. Len(cs) |-> NodeJson(cs[i])]

EdgeJsons(cs) == [i \in 1 .. Len(cs) |-> EdgeJson(cs[i])]

list_nodes(cs, parent) ==
    LET listed(c) == Listed(cs, c, parent)
    IN  NodeJsons(SelectSeq(cs, listed))

get_edges(cs, node_id) ==
    LET touches(c) == c.kind = "edge" /\ (c.id = node_id \/ c.extra = node_id)
    IN  EdgeJsons(SelectSeq(cs, touches))

execute_query_tool(tool_name, params, cs) ==
    CASE tool_name = "get_node" ->
           LET id == as_str(params["id"])
           IN  IF id = NONE THEN QueryResult("MissingParameter", <<>>)
               ELSE IF NodePositions(cs, id) = {} THEN QueryResult("NodeNotFound", <<>>)
               ELSE QueryResult("Ok", << NodeJson(At(cs, SetMin(NodePositions(cs, id)))) >>)
      [] tool_name = "list_nodes" ->
           QueryResult("Ok", list_nodes(cs, as_str(params["parent"])))
      [] tool_name = "get_edges" ->
           LET node_id == as_str(params["node_id"])
           IN  IF node_id = NONE THEN QueryResult("MissingParameter", <<>>)
               ELSE QueryResult("Ok", get_edges(cs, node_id))
      [] OTHER -> QueryResult("UnknownTool", <<>>)

-----------------------------------------------------------------------------
(* The text functions applied to inputs: a caller that parses a DOT text,   *)
(* serializes the chunks and parses the result again (test_simple_roundtrip)*)
(* or walks one edge statement.                                             *)

MaxTargets == 3

\* Attribute value tokens as they stand in a DOT text; none is HTML-like
ValueTokens ==
    { "red", "\"Node A\"", "\"\"", "\"Node \\\"A\\\"\"", "\"a\\\\b\"", "\"<f0> a|<f1>\"" }

AList(key, token) == << << <<key, token>> >> >>

\* digraph G { A [label=..]; B [label=..]; A -> B [color="red"]; }, one
\* statement per line
TextSimple(label, other) ==
    << NodeStmt("A", AList("label", label), <<2, 2>>),
       NodeStmt("B", AList("label", other), <<3, 3>>),
       EdgeStmt("A", << "B" >>, AList("color", "\"red\""), <<4, 4>>) >>

\* A cluster with a graph attribute and a node, then a chain and an assignment
TextClustered(label, other) ==
    << SubgraphStmt("cluster_0",
                    << AttrStmt("graph", AList("label", label), <<3, 3>>),
                       NodeStmt("A", <<>>, <<4, 4>>) >>,
                    <<2, 5>>),
       EdgeStmt("A", << "B", "C:p" >>, AList("label", other), <<6, 6>>),
       IdEqStmt("rankdir", "LR", <<7, 7>>) >>

\* digraph { subgraph { A [color=..] } B [color=.., color=..] } on one line
TextOneLine(label, other) ==
    << SubgraphStmt(NONE, << NodeStmt("A", AList("color", label), <<1, 1>>) >>, <<1, 1>>),
       NodeStmt("B", << << <<"color", label>>, <<"color", other>> >> >>, <<1, 1>>) >>

DotTexts ==
    UNION { { TextSimple(a, b), TextClustered(a, b), TextOneLine(a, b) } :
            a \in ValueTokens, b \in ValueTokens }

Endpoints == {"A", "B", "C:p"}

EdgeStmts ==
    { EdgeStmt(from, targets, a_lists, span) :
        from \in Endpoints,
        targets \in UNION { [1 .. n -> Endpoints] : n \in 1 .. MaxTargets },
        a_lists \in { <<>>, AList("color", "\"red\"") },
        span \in { <<2, 2>>, <<3, 5>> } }

InitText == InitAny({ <<>> })

\* The function is applied once, to a fresh input
Unapplied == steps = 0 /\ steps < MaxSteps

DoRoundTrip ==
    /\ Unapplied
    /\ \E t \in DotTexts :
         LET first == parse_dot_to_chunks(t)
             reconstructed == chunks_to_complete_dot(first)
             second == parse_serialized(reconstructed)
         IN  /\ chunks' = first
             /\ last' = [res |-> second.res, cmd |-> [action |-> "round_trip"],
                         before |-> <<>>, out |-> second.chunks]
    /\ steps' = steps + 1
    /\ UNCHANGED named
    /\ undo' = <<>>
    /\ UNCHANGED overflow_checks

DoWalkEdge ==
    /\ Unapplied
    /\ \E pair \in EdgeStmts :
         /\ chunks' = walk(pair)
         /\ last' = [res |-> "Ok", cmd |-> [action |-> "walk", stmt |-> pair],
                     before |-> <<>>]
    /\ steps' = steps + 1
    /\ UNCHANGED named
    /\ undo' = <<>>
    /\ UNCHANGED overflow_checks

\* Attribute values a chunk may hold
AttrValues ==
    { "", "red", "box3", "Node A", "1.5", "<b>x</b>", "<", "<a", "a>", "a\"b", "\"",
      "a\\b", "\\", "\\\"", "x\ny", "x\ry" }

AttrKeys == {"label", "color", "shape"}

DoFormat ==
    /\ Unapplied
    /\ \E key \in AttrKeys, v \in AttrValues :
         LET attrs == [k \in {key} |-> v]
         IN  last' = [res |-> "Ok", cmd |-> [action |-> "format", attrs |-> attrs],
                      before |-> <<>>, out |-> format_dot_attributes(attrs)]
    /\ steps' = steps + 1
    /\ UNCHANGED named
    /\ undo' = <<>>
    /\ UNCHANGED <<chunks, overflow_checks>>

\* The names get_tool_definitions lists, and two it does not
ToolNames ==
    { "get_node", "list_nodes", "get_edges", "create_node", "update_node", "delete_node",
      "create_edge", "delete_edge", "create_cluster", "update_edge", "" }

ParamKeys == {"id", "from", "to", "label", "shape", "color", "parent"}

ParamValues(k) ==
    CASE k = "id" -> { Null, Str("A"), Num("7") }
      [] k = "from" -> { Null, Str("A"), Num("7") }
      [] k = "to" -> { Null, Str("B"), Num("7") }
      [] k = "label" -> { Null, Str("Node A") }
      [] k = "shape" -> { Null, Str("box") }
      [] k = "color" -> { Null, Num("7") }
      [] k = "parent" -> { Null, Str("cluster_0"), Num("7") }

ToolParams == { params \in [ParamKeys -> UNION {ParamValues(k) : k \in ParamKeys}] :
                  \A k \in ParamKeys : params[k] \in ParamValues(k) }

DoToolCall ==
    /\ Unapplied
    /\ \E tool_name \in ToolNames, params \in ToolParams :
         LET r == tool_call_to_command(tool_name, params)
         IN  last' = [res |-> r.res,
                      cmd |-> [action |-> "tool_call", params |-> params,
                               tool_name |-> tool_name],
                      before |-> <<>>, out |-> r.cmd]
    /\ steps' = steps + 1
    /\ UNCHANGED named
    /\ undo' = <<>>
    /\ UNCHANGED <<chunks, overflow_checks>>

\* The pieces of a DOT text; one blank or one newline follows each but the last
Pieces ==
    << "digraph {", "subgraph P {", "A;", "subgraph Q {", "B [a=1];", "}", "C ->",
       "D -> E;", "}", "F;", "x=1;", "}" >>

\* The byte offset at which piece k starts, and the one after its last byte
RECURSIVE PieceStart(_)
PieceStart(k) == IF k = 1 THEN 0 ELSE PieceStart(k - 1) + Len(Pieces[k - 1]) + 1

PieceEnd(k) == PieceStart(k) + Len(Pieces[k])

\* The span of a pair that starts with piece j and ends with piece k
PieceSpan(j, k) == << PieceStart(j), PieceEnd(k) >>

RECURSIVE TextFrom(_, _)
TextFrom(seps, k) ==
    IF k = Len(Pieces) THEN Pieces[k] ELSE Pieces[k] \o seps[k] \o TextFrom(seps, k + 1)

\* The texts: every way of ending the pieces with a blank or a newline
PieceTexts == { TextFrom(seps, 1) : seps \in [1 .. (Len(Pieces) - 1) -> {" ", "\n"}] }

\* The parse tree of each of the texts
PieceTree ==
    << SubgraphStmt("P",
                    << NodeStmt("A", <<>>, PieceSpan(3, 3)),
                       SubgraphStmt("Q",
                                    << NodeStmt("B", AList("a", "1"), PieceSpan(5, 5)) >>,
                                    PieceSpan(4, 6)),
                       EdgeStmt("C", << "D", "E" >>, <<>>, PieceSpan(7, 8)) >>,
                    PieceSpan(2, 9)),
       NodeStmt("F", <<>>, PieceSpan(10, 10)),
       IdEqStmt("x", "1", PieceSpan(11, 11)) >>

DoParse ==
    /\ Unapplied
    /\ \E dot \in PieceTexts :
         /\ chunks' = parse_dot_to_chunks(Located(dot, PieceTree))
         /\ last' = [res |-> "Ok", cmd |-> [action |-> "parse", text |-> dot],
                     before |-> <<>>]
    /\ steps' = steps + 1
    /\ UNCHANGED named
    /\ undo' = <<>>
    /\ UNCHANGED overflow_checks

\* DotCommand values: those the caller of apply_command draws
DotCommands ==
    { [action |-> "create_node", id |-> id, attrs |-> attrs, parent |-> parent] :
        id \in NodeIds, attrs \in {NoAttrs, AttrOld}, parent \in Parents }
      \cup { [action |-> "update_node", id |-> id, attrs |-> attrs] :
               id \in NodeIds, attrs \in {NoAttrs, AttrNew} }
      \cup { [action |-> "delete_node", id |-> id] : id \in NodeIds }
      \cup { [action |-> "create_edge", attrs |-> attrs, from |-> from, to |-> to,
              parent |-> parent] :
               from \in NodeIds, to \in NodeIds, attrs \in {NoAttrs, AttrOld},
               parent \in Parents }
      \cup { [action |-> "update_edge", attrs |-> attrs, from |-> from, to |-> to] :
               from \in NodeIds, to \in NodeIds, attrs \in {NoAttrs, AttrNew} }
      \cup { [action |-> "delete_edge", from |-> from, to |-> to] :
               from \in NodeIds, to \in NodeIds }
      \cup { [action |-> "create_subgraph", id |-> id, parent |-> parent] :
               id \in SubgraphIds \cup {NONE}, parent \in Parents }
      \cup { [action |-> "delete_subgraph", id |-> id] : id \in SubgraphIds }
      \cup { [action |-> "set_graph_attr", key |-> key, value |-> value] :
               key \in GraphKeys, value \in GraphValues }
      \cup { [action |-> "set_node_default", attrs |-> attrs] : attrs \in {AttrOld, AttrNew} }
      \cup { [action |-> "set_edge_default", attrs |-> attrs] : attrs \in {AttrOld, AttrNew} }
      \cup { [action |-> "delete_attr", key |-> key] : key \in GraphKeys }

\* test_json_serialization: to_string, then from_str
DoJson ==
    /\ Unapplied
    /\ \E command \in DotCommands :
         LET json == to_json(command)
             deserialized == from_json(json)
         IN  last' = [res |-> deserialized.res,
                      cmd |-> [action |-> "json", value |-> command],
                      before |-> <<>>, out |-> << json, deserialized.cmd >>]
    /\ steps' = steps + 1
    /\ UNCHANGED named
    /\ undo' = <<>>
    /\ UNCHANGED <<chunks, overflow_checks>>

NextText ==
    \/ DoRoundTrip
    \/ DoWalkEdge
    \/ DoFormat
    \/ DoToolCall
    \/ DoParse
    \/ DoJson

SpecText == InitText /\ [][NextText]_vars

-----------------------------------------------------------------------------
(* A caller asking one query about a chunk list of the command layer        *)

\* Commands that set a list up: children created in P, a placeholder
\* subgraph, a nested one
QuerySetup ==
    { [action |-> "create_node", id |-> "C", attrs |-> NoAttrs, parent |-> parent] :
        parent \in {NONE, "P"} }
      \cup { [action |-> "create_subgraph", id |-> "Q", parent |-> parent] :
               parent \in {NONE, "P"} }

\* Parsed lists, and parsed lists after one or two commands
QueryLists ==
    LET once == { apply_command(cs, cmd, FALSE).chunks : cs \in ParsedLists, cmd \in QuerySetup }
        twice == { apply_command(cs, cmd, FALSE).chunks : cs \in once, cmd \in QuerySetup }
    IN  ParsedLists \cup once \cup twice

QueryParams == [ {"id", "parent", "node_id"} -> {Null} ]

InitQuery == InitAny(QueryLists)

Query(tool_name, params) ==
    /\ LET r == execute_query_tool(tool_name, params, chunks)
       IN  last' = [res |-> r.res,
                    cmd |-> [action |-> "query", params |-> params, tool_name |-> tool_name],
                    before |-> chunks, out |-> r.value]
    /\ steps' = steps + 1
    /\ UNCHANGED named
    /\ undo' = <<>>
    /\ UNCHANGED <<chunks, overflow_checks>>

DoGetNode ==
    /\ Unapplied
    /\ \E id \in {Null, Num("7"), Str("A"), Str("C")}, params \in QueryParams :
         Query("get_node", [params EXCEPT !["id"] = id])

DoListNodes ==
    /\ Unapplied
    /\ \E parent \in {Null, Num("7"), Str("P"), Str("Q"), Str("R")}, params \in QueryParams :
         Query("list_nodes", [params EXCEPT !["parent"] = parent])

DoGetEdges ==
    /\ Unapplied
    /\ \E node_id \in {Null, Str("A"), Str("B")}, params \in QueryParams :
         Query("get_edges", [params EXCEPT !["node_id"] = node_id])

DoOtherQuery ==
    /\ Unapplied
    /\ \E tool_name \in {"create_node", "list_edges"}, params \in QueryParams :
         Query(tool_name, params)

NextQuery ==
    \/ DoGetNode
    \/ DoListNodes
    \/ DoGetEdges
    \/ DoOtherQuery

SpecQuery == InitQuery /\ [][NextQuery]_vars

\* The same caller, starting from a list with distinct nodes and distinct edges
InitDslUnique == InitAny({cs \in DslParsedLists : UniqueNodes(cs) /\ UniqueEdges(cs)})

SpecDslUnique == InitDslUnique /\ [][NextDsl]_vars

-----------------------------------------------------------------------------
(* NamedGraph (crates/graph-assistant/src/lib.rs)                          *)
(*                                                                         *)
(* A NamedGraph is [graph, name_map, node_to_subgraph].  graph, the        *)
(* petgraph StableGraph<String, E, Ty>, is [nodes, free, edges, directed]: *)
(* nodes[i + 1] is the weight at NodeIndex i, or NONE where the slot is    *)
(* vacant; free is the list of vacant slots, the one add_node takes next   *)
(* first; edges is the multiset of (source index, target index, weight),   *)
(* held as the number of edges of each triple (EdgeIndex values are not    *)
(* held).  The two HashMaps are functions on the set of their keys.        *)
(* Option<T> is Nothing or Some(v).  An operation that takes &mut self     *)
(* yields the pair << graph after, returned value >>.                      *)

Some(v) == << v >>

Nothing == << >>

MapInsert(m, k, v) == [x \in DOMAIN m \cup {k} |-> IF x = k THEN v ELSE m[x]]

MapRemove(m, k) == [x \in DOMAIN m \ {k} |-> m[x]]

\* StableGraph::add_node: the most recently vacated slot, or a new one
add_node(g, weight) ==
    IF g.free # << >>
      THEN LET idx == Head(g.free)
           IN  << [g EXCEPT !.nodes[idx + 1] = weight, !.free = Tail(@)], idx >>
      ELSE << [g EXCEPT !.nodes = Append(@, weight)], Len(g.nodes) >>

\* StableGraph::node_weight
node_weight(g, idx) ==
    IF idx < Len(g.nodes) /\ g.nodes[idx + 1] # NONE THEN Some(g.nodes[idx + 1])
    ELSE Nothing

\* StableGraph::remove_node: the slot is vacated and every edge at it goes
remove_node(g, idx) ==
    IF node_weight(g, idx) = Nothing THEN << g, Nothing >>
    ELSE << [g EXCEPT !.nodes[idx + 1] = NONE,
                      !.free = << idx >> \o @,
                      !.edges = [e \in {d \in DOMAIN @ : d[1] # idx /\ d[2] # idx}
                                   |-> @[e]]],
            node_weight(g, idx) >>

\* StableGraph::add_edge
add_edge(g, ia, ib, weight) ==
    LET e == << ia, ib, weight >>
    IN  [g EXCEPT !.edges = MapInsert(@, e, IF e \in DOMAIN @ THEN @[e] + 1 ELSE 1)]

\* StableGraph::find_edge: an edge ia -> ib; in an undirected graph an edge
\* ib -> ia when there is none
find_edge(g, ia, ib) ==
    LET out == {e \in DOMAIN g.edges : e[1] = ia /\ e[2] = ib}
        inc == {e \in DOMAIN g.edges : e[1] = ib /\ e[2] = ia}
    IN  IF out # {} THEN Some(CHOOSE e \in out : TRUE)
        ELSE IF ~g.directed /\ inc # {} THEN Some(CHOOSE e \in inc : TRUE)
        ELSE Nothing

\* StableGraph::remove_edge
remove_edge(g, e) ==
    << [g EXCEPT !.edges = IF @[e] = 1 THEN MapRemove(@, e)
                           ELSE [@ EXCEPT ![e] = @ - 1]],
       Some(e[3]) >>

new_graph(directed) ==
    [nodes |-> << >>, free |-> << >>, edges |-> << >>, directed |-> directed]

new_undirected ==
    [graph |-> new_graph(FALSE), name_map |-> << >>, node_to_subgraph |-> << >>]

new_directed ==
    [graph |-> new_graph(TRUE), name_map |-> << >>, node_to_subgraph |-> << >>]

\* The name index built slot by slot: a later slot of the same name wins
NameMapOf(nodes) ==
    LET names == {nodes[i] : i \in DOMAIN nodes} \ {NONE}
    IN  [n \in names |-> SetMax({i \in DOMAIN nodes : nodes[i] = n}) - 1]

from_owned_graph(graph) ==
    [graph |-> graph, name_map |-> NameMapOf(graph.nodes), node_to_subgraph |-> << >>]

get_node_index(ng, name) ==
    IF name \in DOMAIN ng.name_map THEN Some(ng.name_map[name]) ELSE Nothing

ensure_node(ng, name) ==
    IF name \in DOMAIN ng.name_map THEN << ng, ng.name_map[name] >>
    ELSE LET added == add_node(ng.graph, name)
         IN  << [ng EXCEPT !.graph = added[1],
                           !.name_map = MapInsert(@, name, added[2])],
                added[2] >>

\* The EdgeIndex it returns is not held
add_edge_by_name(ng, a, b, weight) ==
    LET first == ensure_node(ng, a)
        second == ensure_node(first[1], b)
    IN  << [second[1] EXCEPT !.graph = add_edge(@, first[2], second[2], weight)],
           Nothing >>

remove_node_by_name(ng, name) ==
    IF name \notin DOMAIN ng.name_map THEN << ng, Nothing >>
    ELSE LET removed == remove_node(ng.graph, ng.name_map[name])
         IN  << [ng EXCEPT !.graph = removed[1], !.name_map = MapRemove(@, name)],
                removed[2] >>

remove_edge_by_names(ng, a, b) ==
    LET ia == get_node_index(ng, a)
        ib == get_node_index(ng, b)
    IN  IF ia = Nothing \/ ib = Nothing THEN << ng, Nothing >>
        ELSE LET ei == find_edge(ng.graph, ia[1], ib[1])
             IN  IF ei = Nothing THEN << ng, Nothing >>
                 ELSE LET removed == remove_edge(ng.graph, ei[1])
                      IN  << [ng EXCEPT !.graph = removed[1]], removed[2] >>

rename_node(ng, old_name, new_name) ==
    IF new_name \in DOMAIN ng.name_map THEN << ng, FALSE >>
    ELSE IF old_name \notin DOMAIN ng.name_map THEN << ng, FALSE >>
    ELSE LET idx == ng.name_map[old_name]
             taken == [ng EXCEPT !.name_map = MapRemove(@, old_name)]
         IN  IF node_weight(ng.graph, idx) = Nothing THEN << taken, FALSE >>
             ELSE << [taken EXCEPT !.graph.nodes[idx + 1] = new_name,
                                   !.name_map = MapInsert(@, new_name, idx)],
                     TRUE >>

set_node_subgraph(ng, node_name, subgraph_name) ==
    IF node_name \in DOMAIN ng.name_map
      THEN << [ng EXCEPT !.node_to_subgraph = MapInsert(@, node_name, subgraph_name)],
              Nothing >>
      ELSE << ng, Nothing >>

\* The strings of the model in the order of String's Ord
Alphabet == << "A", "B", "C", "S", "T" >>

\* Vec<String>::sort
RECURSIVE SortedFrom(_, _)
SortedFrom(names, k) ==
    IF k > Len(Alphabet) THEN << >>
    ELSE SelectSeq(names, LAMBDA n : n = Alphabet[k]) \o SortedFrom(names, k + 1)

Sorted(names) == SortedFrom(names, 1)

\* The number of edges of the triples in S
RECURSIVE EdgeCount(_, _)
EdgeCount(edges, S) ==
    IF S = {} THEN 0
    ELSE LET e == CHOOSE d \in S : TRUE
         IN  edges[e] + EdgeCount(edges, S \ {e})

\* NamedGraph::edges_with_names, sorted: each edge as (source name, target
\* name), the weights of the model being equal
RECURSIVE EdgeNamesFrom(_, _, _)
EdgeNamesFrom(g, pairs, k) ==
    IF k > Len(pairs) THEN << >>
    ELSE LET here == {e \in DOMAIN g.edges :
                         /\ g.nodes[e[1] + 1] = pairs[k][1]
                         /\ g.nodes[e[2] + 1] = pairs[k][2]}
         IN  [i \in 1 .. EdgeCount(g.edges, here) |-> << pairs[k][1], pairs[k][2] >>]
             \o EdgeNamesFrom(g, pairs, k + 1)

\* NamedGraph::to_dot, as what it writes between "graph G {" and "}":
\* << clusters, root_nodes, edges >>.  clusters[i + 1] is << label, nodes >>
\* of "subgraph cluster_i", root_nodes the node lines after the clusters, and
\* edges the edge lines.
named_to_dot(ng) ==
    LET live == SelectSeq(ng.graph.nodes, LAMBDA w : w # NONE)
        placed == SelectSeq(live, LAMBDA n : n \in DOMAIN ng.node_to_subgraph)
        root_nodes == SelectSeq(live, LAMBDA n : n \notin DOMAIN ng.node_to_subgraph)
        keys == {ng.node_to_subgraph[placed[i]] : i \in DOMAIN placed}
        subgraph_keys == SelectSeq(Alphabet, LAMBDA s : s \in keys)
        subgraph_nodes(s) == SelectSeq(placed, LAMBDA n : ng.node_to_subgraph[n] = s)
        pairs == [k \in 1 .. Len(Alphabet) * Len(Alphabet) |->
                    << Alphabet[((k - 1) \div Len(Alphabet)) + 1],
                       Alphabet[((k - 1) % Len(Alphabet)) + 1] >>]
    IN  << [i \in DOMAIN subgraph_keys |->
               << subgraph_keys[i], Sorted(subgraph_nodes(subgraph_keys[i])) >>],
           Sorted(root_nodes),
           EdgeNamesFrom(ng.graph, pairs, 1) >>

-----------------------------------------------------------------------------
(* A caller of NamedGraph                                                  *)

NodeNames == {"A", "B", "C"}

SubgraphNames == {"S", "T"}

\* The one edge weight of the model
EdgeWeight == "w"

\* A graph handed to from_owned_graph: A -> B
OwnedGraph ==
    add_edge(add_node(add_node(new_graph(TRUE), "A")[1], "B")[1], 0, 1, EdgeWeight)

InitNamed ==
    /\ named \in {new_undirected, new_directed, from_owned_graph(OwnedGraph)}
    /\ chunks = << >>
    /\ last = [res |-> Nothing, cmd |-> << "new" >>, before |-> named]
    /\ steps = 0
    /\ overflow_checks = FALSE
    /\ undo = << >>

Calling == steps < MaxSteps

Call(cmd, r) ==
    /\ named' = r[1]
    /\ last' = [res |-> r[2], cmd |-> cmd, before |-> named]
    /\ steps' = steps + 1
    /\ UNCHANGED << chunks, overflow_checks, undo >>

DoEnsureNode ==
    /\ Calling
    /\ \E name \in NodeNames :
          Call(<< "ensure_node", name >>, ensure_node(named, name))

DoAddEdgeByName ==
    /\ Calling
    /\ \E a \in NodeNames, b \in NodeNames :
          Call(<< "add_edge_by_name", a, b >>, add_edge_by_name(named, a, b, EdgeWeight))

DoRemoveNodeByName ==
    /\ Calling
    /\ \E name \in NodeNames :
          Call(<< "remove_node_by_name", name >>, remove_node_by_name(named, name))

DoRemoveEdgeByNames ==
    /\ Calling
    /\ \E a \in NodeNames, b \in NodeNames :
          Call(<< "remove_edge_by_names", a, b >>, remove_edge_by_names(named, a, b))

DoRenameNode ==
    /\ Calling
    /\ \E old_name \in NodeNames, new_name \in NodeNames :
          Call(<< "rename_node", old_name, new_name >>,
               rename_node(named, old_name, new_name))

DoSetNodeSubgraph ==
    /\ Calling
    /\ \E node_name \in NodeNames, subgraph_name \in SubgraphNames :
          Call(<< "set_node_subgraph", node_name, subgraph_name >>,
               set_node_subgraph(named, node_name, subgraph_name))

NextNamed ==
    \/ DoEnsureNode
    \/ DoAddEdgeByName
    \/ DoRemoveNodeByName
    \/ DoRemoveEdgeByNames
    \/ DoRenameNode
    \/ DoSetNodeSubgraph

SpecNamed == InitNamed /\ [][NextNamed]_vars

-----------------------------------------------------------------------------
(* Properties of the DSL layer                                             *)

\* The chunk refers to node id: as a Node chunk, as an endpoint of an Edge
\* chunk, or in the node list of a Rank chunk
RefersTo(c, id) ==
    \/ c.kind = "node" /\ c.id = id
    \/ c.kind = "edge" /\ (c.id = id \/ c.extra = id)
    \/ /\ c.kind = "rank"
       /\ "nodes" \in DOMAIN c.attrs
       /\ \E i \in 1 .. Len(Split(c.attrs["nodes"])) : Split(c.attrs["nodes"])[i] = id

IsRename == last.cmd.action = "node_update" /\ "id" \in DOMAIN last.cmd.attrs

\* C12: a node update for X whose attributes hold id = Y renames the Node
\* chunk X to Y, rewrites every Edge chunk with id = X or extra = X to Y and
\* replaces X by Y in every Rank chunk's node list; afterwards no Node, Edge or
\* Rank chunk refers to X, the id key is not stored as an attribute, and all
\* other chunks are unchanged.
C12_RenameCascades ==
    IsRename =>
        LET X == last.cmd.id
            Y == last.cmd.attrs["id"]
            before == last.before
        IN  /\ Len(chunks) = Len(before)
            /\ \A i \in Indices(before) :
                 LET b == At(before, i)
                     c == At(chunks, i)
                 IN  /\ (b.kind = "node" /\ b.id = X) => c.id = Y
                     /\ b.kind = "edge" =>
                          /\ c.id = (IF b.id = X THEN Y ELSE b.id)
                          /\ c.extra = (IF b.extra = X THEN Y ELSE b.extra)
                          /\ c.attrs = b.attrs
                     /\ b.kind = "rank" =>
                          c = [b EXCEPT !.attrs =
                                 [@ EXCEPT !["nodes"] = ReplaceInList(@, X, Y)]]
                     /\ "id" \in DOMAIN c.attrs => "id" \in DOMAIN b.attrs
                     /\ ~RefersTo(b, X) => c = b
            /\ X # Y => \A i \in Indices(chunks) : ~RefersTo(At(chunks, i), X)

\* The positions of the chunks of the entity a node/edge/cluster command names
EntityPositions(cs, cmd) ==
    IF cmd.action = "node_add" THEN NodePositions(cs, cmd.id)
    ELSE IF cmd.action = "edge_add" THEN EdgePositions(cs, cmd.from, cmd.to)
    ELSE SubgraphPositions(cs, cluster_id(cmd.id))

\* C13: a DSL node, edge or cluster set command (`node:`, `edge:`,
\* `cluster:`) applied to an absent entity creates exactly one chunk for it,
\* and applied to an entity that exists merges the given attributes into the
\* existing chunk (right-biased) without adding a second chunk for the same
\* node id, edge (from, to) pair or cluster id.
C13_SetAddsOrMerges ==
    last.cmd.action \in {"node_add", "edge_add", "cluster_add"} =>
        LET before == last.before
            found == EntityPositions(before, last.cmd)
        IN  IF found = {}
              THEN /\ Len(chunks) = Len(before) + 1
                   /\ SubSeq(chunks, 1, Len(before)) = before
                   /\ Cardinality(EntityPositions(chunks, last.cmd)) = 1
              ELSE /\ Len(chunks) = Len(before)
                   /\ Cardinality(EntityPositions(chunks, last.cmd)) = Cardinality(found)
                   /\ chunks = [before EXCEPT ![SetMin(found) + 1].attrs =
                                                Extend(@, last.cmd.attrs)]

\* The id with the cluster_ prefix, as the claim states it
Prefixed(id) == IF StartsWithCluster(id) THEN id ELSE "cluster_" \o id

IsClusterCmd == last.cmd.action \in {"cluster_add", "cluster_update", "cluster_delete"}

\* C14: every DSL cluster command (add, update, delete) uses its id with the
\* cluster_ prefix: prepended when absent, left as is when present
\* (normalizing twice changes nothing), so the commands given X and cluster_X
\* address the same Subgraph chunk, and every Subgraph chunk the DSL creates
\* has an id starting with cluster_.
C14_ClusterIdNormalized ==
    /\ \A i \in Indices(chunks) :
         (At(chunks, i).kind = "subgraph" /\ At(chunks, i).range = <<0, 0>>)
            => StartsWithCluster(At(chunks, i).id)
    /\ IsClusterCmd =>
         LET before == last.before
             id == last.cmd.id
             found == SubgraphPositions(before, Prefixed(id))
             other(c) == ~IsSubgraph(c, Prefixed(id))
         IN  /\ cluster_id(cluster_id(id)) = cluster_id(id)
             /\ chunks = apply_dsl(before, [last.cmd EXCEPT !.id = Prefixed(id)])
             /\ last.cmd.action = "cluster_add" =>
                  /\ Len(chunks) = Len(before) + 1
                  /\ IsSubgraph(chunks[Len(chunks)], Prefixed(id))
             /\ (last.cmd.action = "cluster_update" /\ found # {}) =>
                  chunks = [before EXCEPT ![SetMin(found) + 1].attrs =
                                            Extend(@, last.cmd.attrs)]
             /\ last.cmd.action = "cluster_delete" => chunks = SelectSeq(before, other)

\* A cluster created as X was then updated or deleted as cluster_X, or the
\* other way round.
C14_Witness ==
    /\ steps = 2
    /\ last.cmd.action \in {"cluster_update", "cluster_delete"}
    /\ chunks # last.before
    /\ \E i \in Indices(last.before) :
         /\ IsSubgraph(At(last.before, i), Prefixed(last.cmd.id))
         /\ At(last.before, i).range = <<0, 0>>
    /\ Len(last.before) > 1

\* C15: ClusterCmd::Move leaves the chunk list unchanged: no chunk added,
\* removed, reordered or modified, whatever the list and the node and cluster
\* named.
C15_MoveChangesNothing ==
    last.cmd.action = "cluster_move" => chunks = last.before

\* Move named a node and a cluster that both have a chunk in the list.
C15_Witness ==
    /\ last.cmd.action = "cluster_move"
    /\ NodePositions(chunks, last.cmd.node) # {}
    /\ SubgraphPositions(chunks, Prefixed(last.cmd.cluster)) # {}
    /\ SetMin(NodePositions(chunks, last.cmd.node)) >
         SetMin(SubgraphPositions(chunks, Prefixed(last.cmd.cluster))) + 1

-----------------------------------------------------------------------------
(* Properties of the serializer                                            *)

Serialized == last.cmd.action = "serialize"

\* The lines that render a chunk: block openings and statements
ChunkLines(out) == {k \in 1 .. Len(out) : out[k].text \in {"open", "stmt"}}

\* Line k lies inside the block opened at line s
InsideBlock(out, k, s) == s < k /\ k < ClosingLine(out, s)

\* Any two Subgraph ranges are nested or disjoint
NestedOrDisjoint(cs) ==
    \A i, j \in Indices(cs) :
        (At(cs, i).kind = "subgraph" /\ At(cs, j).kind = "subgraph") =>
            LET r == At(cs, i).range
                q == At(cs, j).range
            IN  WithinRange(r, q) \/ WithinRange(q, r) \/ ULt(r[2], q[1]) \/ ULt(q[2], r[1])

\* C16: for a chunk list whose Subgraph ranges are pairwise nested or
\* disjoint, chunks_to_complete_dot emits every chunk exactly once in order of
\* start line, opens one block per Subgraph chunk and closes each opened block
\* exactly once (no closing brace without an open block, none left open), and
\* emits a chunk inside the block of a subgraph S exactly when the chunk's
\* range lies within S's range.
C16_SerializerNestsByRange ==
    (Serialized /\ NestedOrDisjoint(chunks)) =>
        LET out == last.out
            emitted == SelectSeq(out, LAMBDA l : l.text \in {"open", "stmt"})
        IN  /\ Len(emitted) = Len(chunks)
            /\ \E perm \in [1 .. Len(chunks) -> 1 .. Len(chunks)] :
                 /\ \A i, j \in 1 .. Len(chunks) : perm[i] = perm[j] => i = j
                 /\ \A i \in 1 .. Len(chunks) : emitted[i].chunk = chunks[perm[i]]
            /\ \A i \in 1 .. (Len(emitted) - 1) :
                 ULe(emitted[i].chunk.range[1], emitted[i + 1].chunk.range[1])
            /\ \A i \in 1 .. Len(emitted) :
                 (emitted[i].text = "open") = (emitted[i].chunk.kind = "subgraph")
            /\ \A k \in 1 .. Len(out) : Depth(out, k) >= 0
            /\ Depth(out, Len(out)) = 0
            /\ \A s, k \in ChunkLines(out) :
                 (out[s].text = "open" /\ k # s) =>
                    /\ InsideBlock(out, k, s)
                         => WithinRange(out[k].chunk.range, out[s].chunk.range)
                    /\ StrictlyInside(out[k].chunk.range, out[s].chunk.range)
                         => InsideBlock(out, k, s)

-----------------------------------------------------------------------------
(* Graph attributes and defaults                                           *)

\* At most one id_eq chunk per key, at most one attr_stmt chunk for "node"
\* and for "edge"
Singleton(cs) ==
    /\ \A i, j \in Indices(cs) :
          (i # j /\ At(cs, i).kind = "id_eq" /\ At(cs, j).kind = "id_eq")
              => At(cs, i).id # At(cs, j).id
    /\ \A target \in {"node", "edge"} : Cardinality(AttrStmtPositions(cs, target)) <= 1

\* cs is before with attrs of the chunk at pos replaced, nothing else touched
UpdatedInPlace(before, cs, pos, attrs) ==
    /\ Len(cs) = Len(before)
    /\ cs = [before EXCEPT ![pos + 1].attrs = attrs]

\* cs is before with one chunk inserted at pos
InsertedAt(before, cs, pos) ==
    /\ Len(cs) = Len(before) + 1
    /\ pos \in Indices(cs)
    /\ RemoveAt(cs, pos) = before

SetDefaultTarget ==
    IF last.cmd.action = "set_node_default" THEN "node" ELSE "edge"

\* C11: the list keeps at most one id_eq chunk per key and at most one
\* attr_stmt chunk for "node" and for "edge"; a Set on an existing key or
\* target updates that chunk in place, a Set on a missing one inserts exactly
\* one chunk (a graph attribute at index 0, a node/edge default next to an
\* existing attr_stmt chunk), and DeleteAttr on a missing key fails with
\* AttributeNotFound.
C11_AttrChunksStaySingleton ==
    LET before == last.before
    IN  /\ Singleton(chunks)
        /\ last.cmd.action = "set_graph_attr" =>
              LET found == IdEqPositions(before, last.cmd.key)
              IN  /\ last.res = "Ok"
                  /\ IF found # {}
                       THEN UpdatedInPlace(before, chunks, SetMin(found),
                                           RawValue(last.cmd.value))
                       ELSE /\ InsertedAt(before, chunks, 0)
                            /\ At(chunks, 0).kind = "id_eq"
                            /\ At(chunks, 0).id = last.cmd.key
                            /\ At(chunks, 0).attrs = RawValue(last.cmd.value)
        /\ last.cmd.action \in {"set_node_default", "set_edge_default"} =>
              LET found == AttrStmtPositions(before, SetDefaultTarget)
                  stmts == {i \in Indices(before) : At(before, i).kind = "attr_stmt"}
              IN  /\ last.res = "Ok"
                  /\ IF found # {}
                       THEN UpdatedInPlace(before, chunks, SetMin(found), last.cmd.attrs)
                       ELSE \E pos \in Indices(chunks) :
                              /\ InsertedAt(before, chunks, pos)
                              /\ At(chunks, pos).kind = "attr_stmt"
                              /\ At(chunks, pos).id = SetDefaultTarget
                              /\ At(chunks, pos).attrs = last.cmd.attrs
                              /\ stmts # {} =>
                                    \E n \in {pos - 1, pos + 1} \cap Indices(chunks) :
                                        At(chunks, n).kind = "attr_stmt"
        /\ (last.cmd.action = "delete_attr" /\ IdEqPositions(before, last.cmd.key) = {})
              => (last.res = "AttributeNotFound" /\ chunks = before)

\* A missing default was inserted next to an attr_stmt chunk that is not at
\* the head of the list, after an earlier Set had updated a chunk in place.
C11_Witness ==
    /\ steps = 2
    /\ last.cmd.action \in {"set_node_default", "set_edge_default"}
    /\ AttrStmtPositions(last.before, SetDefaultTarget) = {}
    /\ \E i \in Indices(last.before) : i > 0 /\ At(last.before, i).kind = "attr_stmt"
    /\ \E i \in Indices(last.before) :
          At(last.before, i).kind = "id_eq" /\ At(last.before, i).attrs = RawValue("TB")


-----------------------------------------------------------------------------
(* Properties of the text functions                                        *)

Tuple(c) == << c.kind, c.id, c.attrs, c.extra >>

Count(cs, t) == Cardinality({i \in 1 .. Len(cs) : Tuple(cs[i]) = t})

SameTuples(cs, ds) ==
    /\ Len(cs) = Len(ds)
    /\ \A i \in 1 .. Len(cs) : Count(cs, Tuple(cs[i])) = Count(ds, Tuple(cs[i]))

\* C17: parsing a valid DOT text without HTML-like labels, serializing the
\* chunks with chunks_to_complete_dot and parsing the result again succeeds
\* and yields the same multiset of (kind, id, attrs, extra) tuples, hence the
\* same number of chunks, as parsing the text.
C17_RoundTripKeepsTuples ==
    last.cmd.action = "round_trip" =>
        /\ last.res = "Ok"
        /\ SameTuples(chunks, last.out)

\* C18: an edge statement with source `from` and targets t1..tn (n >= 1)
\* yields exactly n Edge chunks, the i-th from t(i-1) (from for i = 1) to ti,
\* with id the left endpoint and extra the right one, all with the attributes
\* and the range of the statement.
C18_EdgeChainExpansion ==
    last.cmd.action = "walk" /\ last.cmd.stmt.stmt = "edge_stmt" =>
        LET pair == last.cmd.stmt
            n == Len(pair.targets)
        IN  /\ n >= 1
            /\ Len(chunks) = n
            /\ \A i \in 1 .. n :
                 /\ chunks[i].kind = "edge"
                 /\ chunks[i].id = (IF i = 1 THEN pair.from ELSE pair.targets[i - 1])
                 /\ chunks[i].extra = pair.targets[i]
                 /\ chunks[i].attrs = chunks[1].attrs
                 /\ chunks[i].attrs =
                      (IF pair.a_lists = <<>> THEN EmptyMap
                       ELSE [k \in {"color"} |-> "red"])
                 /\ chunks[i].range = pair.span

\* A chain of three targets with attributes, over several lines
C18_Witness ==
    /\ last.cmd.action = "walk"
    /\ last.cmd.stmt.stmt = "edge_stmt"
    /\ Len(last.cmd.stmt.targets) = 3
    /\ last.cmd.stmt.from # last.cmd.stmt.targets[1]
    /\ last.cmd.stmt.targets[1] # last.cmd.stmt.targets[2]
    /\ last.cmd.stmt.a_lists # <<>>
    /\ last.cmd.stmt.span = <<3, 5>>
    /\ Len(chunks) = 3

Formatted == last.cmd.action = "format"

\* C19: a value that starts with `<` and ends with `>` is emitted unquoted and
\* unmodified; otherwise an empty value or one with a non-alphanumeric
\* character is emitted in double quotes with each backslash, double quote,
\* newline and carriage return escaped by a backslash; otherwise the value is
\* emitted bare.  Unquoting a quoted emitted text as parse_dot_attributes does
\* gives back the value.
C19_AttributeFormatting ==
    Formatted =>
        \A key \in DOMAIN last.cmd.attrs :
            LET v == last.cmd.attrs[key]
                emitted == last.out[key]
            IN  /\ emitted = format_value_escaping_all(v)
                /\ StartsWith(emitted, "\"") /\ ~(StartsWith(v, "<") /\ EndsWith(v, ">"))
                     => Unquote(emitted) = v

ToolCalled == last.cmd.action = "tool_call"

ModificationTools ==
    { "create_node", "update_node", "delete_node", "create_edge", "delete_edge",
      "create_cluster" }

EdgeTools == { "create_edge", "delete_edge" }

\* The tool's required id, or from or to, is absent or not a string
RequiredMissing(tool_name, params) ==
    IF tool_name \in EdgeTools
      THEN as_str(params["from"]) = NONE \/ as_str(params["to"]) = NONE
      ELSE as_str(params["id"]) = NONE

\* The DotCommand variant a tool stands for (a cluster is a subgraph)
VariantOf(tool_name) ==
    IF tool_name = "create_cluster" THEN "create_subgraph" ELSE tool_name

\* The command carries the given id, or from and to
CarriesEndpoints(command, tool_name, params) ==
    /\ command.action = VariantOf(tool_name)
    /\ IF tool_name \in EdgeTools
         THEN /\ command.from = as_str(params["from"])
              /\ command.to = as_str(params["to"])
         ELSE command.id = as_str(params["id"])

\* C20 as stated: UnknownTool for every name that is not a modification tool,
\* MissingParameter whenever the required id, or from or to, is absent or not
\* a string, and otherwise the DotCommand variant of the tool with exactly the
\* given id / from / to / parent.
C20_ToolCallAsStated ==
    ToolCalled =>
        LET tool_name == last.cmd.tool_name
            params == last.cmd.params
        IN  IF tool_name \notin ModificationTools THEN last.res = "UnknownTool"
            ELSE IF RequiredMissing(tool_name, params) THEN last.res = "MissingParameter"
            ELSE /\ last.res = "Ok"
                 /\ CarriesEndpoints(last.out, tool_name, params)
                 /\ "parent" \in DOMAIN last.out =>
                        last.out.parent = as_str(params["parent"])

\* C20: UnknownTool for every name that is not a modification tool;
\* MissingParameter whenever the required id, or from or to, is absent or not
\* a string; an error of its own for update_node with an id and none of label,
\* shape, color given as a string; otherwise the DotCommand variant of the
\* tool with exactly the given id / from / to, the given parent for
\* create_node and create_edge and no parent for create_cluster.
C20_ToolCallToCommand ==
    ToolCalled =>
        LET tool_name == last.cmd.tool_name
            params == last.cmd.params
            no_attrs == \A k \in {"label", "shape", "color"} : as_str(params[k]) = NONE
        IN  IF tool_name \notin ModificationTools THEN last.res = "UnknownTool"
            ELSE IF RequiredMissing(tool_name, params) THEN last.res = "MissingParameter"
            ELSE IF tool_name = "update_node" /\ no_attrs THEN last.res = "NoAttributes"
            ELSE /\ last.res = "Ok"
                 /\ CarriesEndpoints(last.out, tool_name, params)
                 /\ tool_name \in {"create_node", "create_edge"} =>
                        last.out.parent = as_str(params["parent"])
                 /\ tool_name = "create_cluster" => last.out.parent = NONE

\* create_edge with from, to and a parent, all strings, gave a CreateEdge
C20_Witness ==
    /\ ToolCalled
    /\ last.cmd.tool_name = "create_edge"
    /\ last.cmd.params["parent"] = Str("cluster_0")
    /\ last.cmd.params["id"] = Num("7")
    /\ last.res = "Ok"
    /\ last.out.action = "create_edge"
    /\ last.out.parent = "cluster_0"

-----------------------------------------------------------------------------
(* Properties of the query tools                                           *)

Queried == last.cmd.action = "query"

\* The Node chunks DeleteSubgraph{id: parent} removes from cs
NodesDeletedWith(cs, parent) ==
    LET kept == DeleteSubgraph(cs, parent).chunks
        gone(c) == c.kind = "node" /\ \A i \in 1 .. Len(kept) : kept[i] # c
    IN  IF SubgraphPositions(cs, parent) = {} THEN <<>> ELSE SelectSeq(cs, gone)

\* The Node chunks CreateNode{parent} counts as children of parent
NodeChildren(cs, parent) ==
    LET child(c) == /\ c.kind = "node"
                    /\ StrictlyInside(c.range,
                                      At(cs, SetMin(SubgraphPositions(cs, parent))).range)
    IN  IF SubgraphPositions(cs, parent) = {} THEN <<>> ELSE SelectSeq(cs, child)

AllNodes(cs) == SelectSeq(cs, LAMBDA c : c.kind = "node")

\* C21: a query leaves the chunk list as it was; list_nodes with parent P
\* reports exactly the Node chunks DeleteSubgraph{id: P} would remove and
\* exactly those CreateNode{parent: P} treats as children of P (none when P
\* does not exist), and every Node chunk without a parent.
C21_ListNodesMatchesCommands ==
    Queried =>
        /\ chunks = last.before
        /\ last.cmd.tool_name = "list_nodes" =>
             LET parent == as_str(last.cmd.params["parent"])
             IN  IF parent = NONE
                   THEN last.out = NodeJsons(AllNodes(chunks))
                   ELSE /\ last.out = NodeJsons(NodesDeletedWith(chunks, parent))
                        /\ last.out = NodeJsons(NodeChildren(chunks, parent))

-----------------------------------------------------------------------------
(* Totality and ranges of the command layer                                *)

\* A line number that did not wrap around below zero
InRange(n) == n >= 0

\* C22: apply_command returns Ok or an error value for every chunk list and
\* every command and never aborts the process: it does not panic, and no
\* line number it computes (such as parent.end - 1) falls below zero.
C22_ApplyCommandIsTotal ==
    /\ last.res # "Panic"
    /\ \A i \in 1 .. Len(chunks) :
         InRange(chunks[i].range[1]) /\ InRange(chunks[i].range[2])

-----------------------------------------------------------------------------
(* Properties of the chunk extractor                                       *)

Parsed == last.cmd.action = "parse"

\* The number of chunks the statements give
RECURSIVE ChunkCount(_)
ChunkCount(stmts) ==
    IF stmts = <<>> THEN 0
    ELSE LET pair == Head(stmts)
         IN  (CASE pair.stmt = "subgraph" -> 1 + ChunkCount(pair.body)
                [] pair.stmt = "edge_stmt" -> Len(pair.targets)
                [] OTHER -> 1) + ChunkCount(Tail(stmts))

\* <<p, n>> for every subgraph statement: the position its chunk has in the
\* list when the statements start after position `done`, and the number of
\* chunks its body gives
RECURSIVE Blocks(_, _)
Blocks(stmts, done) ==
    IF stmts = <<>> THEN {}
    ELSE LET pair == Head(stmts)
             here == IF pair.stmt = "subgraph"
                       THEN { << done + 1, ChunkCount(pair.body) >> }
                              \cup Blocks(pair.body, done + 1)
                       ELSE {}
         IN  here \cup Blocks(Tail(stmts), done + ChunkCount(<< pair >>))

-----------------------------------------------------------------------------
(* Properties of the JSON shape of DotCommand                              *)

Jsoned == last.cmd.action = "json"

\* C24: a DotCommand serializes to a JSON object whose `action` is the
\* snake_case variant name, which holds every field but the optional ones
\* that are None, and which deserializes to a command equal to the original.
C24_JsonRoundTrip ==
    Jsoned =>
        LET command == last.cmd.value
            json == last.out[1]
        IN  /\ json["action"] = Str(command.action)
            /\ \A f \in DOMAIN command \ {"action"} :
                 /\ f \in DOMAIN json <=> ~IsNone(f, command[f])
                 /\ f \in DOMAIN json => json[f][1] = "string"
            /\ DOMAIN json \subseteq DOMAIN command
            /\ last.res = "Ok"
            /\ last.out[2] = command

\* A CreateEdge with attributes and no parent: `parent` is left out of the
\* object and comes back as None
C24_Witness ==
    /\ Jsoned
    /\ last.cmd.value.action = "create_edge"
    /\ last.cmd.value.attrs.some
    /\ last.cmd.value.parent = NONE
    /\ DOMAIN last.out[1] = {"action", "attrs", "from", "to"}
    /\ last.out[2].parent = NONE
    /\ last.res = "Ok"

-----------------------------------------------------------------------------
(* Indentation of the serialized text                                      *)

\* C25: every statement is indented by the number of open subgraph blocks
\* plus one, and the closing brace of a block stands at the indent of the
\* `subgraph .. {` line that opened it, whether the block is closed in the
\* loop or by the final drain.
C25_ClosingBraceAlignsWithOpening ==
    Serialized =>
        LET out == last.out
        IN  \A k \in 1 .. Len(out) :
                /\ out[k].text \in {"open", "stmt"} => out[k].indent = Depth(out, k - 1) + 1
                /\ out[k].text = "open" =>
                     /\ ClosingLine(out, k) <= Len(out)
                     /\ out[ClosingLine(out, k)].indent = out[k].indent

-----------------------------------------------------------------------------
(* Chunks created at top level                                             *)

CreatedAtTopLevel ==
    /\ last.cmd.action \in {"create_node", "create_edge"}
    /\ last.cmd.parent = NONE
    /\ last.res = "Ok"

\* The chunk the last create inserted
CreatedChunk ==
    IF last.cmd.action = "create_node"
      THEN At(chunks, SetMin(NodePositions(chunks, last.cmd.id)))
      ELSE At(chunks, SetMin(EdgePositions(chunks, last.cmd.from, last.cmd.to)))

SubgraphChunks(cs) == {i \in Indices(cs) : At(cs, i).kind = "subgraph"}

\* C26: a chunk created by CreateNode or CreateEdge with parent = None is
\* top-level: its range lies inside the range of no Subgraph chunk of the
\* list, so it is emitted outside every block and no DeleteSubgraph removes
\* it.
C26_CreatedWithoutParentIsTopLevel ==
    CreatedAtTopLevel =>
        \A i \in SubgraphChunks(chunks) :
            /\ ~WithinRange(CreatedChunk.range, At(chunks, i).range)
            /\ At(chunks, i).id # NONE =>
                 \E j \in 1 .. Len(DeleteSubgraph(chunks, At(chunks, i).id).chunks) :
                     DeleteSubgraph(chunks, At(chunks, i).id).chunks[j] = CreatedChunk

-----------------------------------------------------------------------------
(* Well-formed ranges                                                      *)

WellFormed(cs) == \A i \in 1 .. Len(cs) : ULe(cs[i].range[1], cs[i].range[2])

\* C27: starting from a list in which every chunk has start_line <= end_line,
\* after any sequence of apply_command calls every chunk still has
\* start_line <= end_line, Subgraph chunks created inside a parent of fewer
\* than three lines included.
C27_RangesStayWellFormed == WellFormed(chunks)

-----------------------------------------------------------------------------
(* Uniqueness and deletion under the DSL layer                             *)

NodeIdsOf(cs) == {cs[i].id : i \in {j \in 1 .. Len(cs) : cs[j].kind = "node"}}

EdgePairsOf(cs) ==
    {<<cs[i].id, cs[i].extra>> : i \in {j \in 1 .. Len(cs) : cs[j].kind = "edge"}}

\* C28: starting from a list with pairwise distinct Node ids and pairwise
\* distinct Edge (id, extra) pairs, after any sequence of DSL commands (adds,
\* updates, deletes, renames through the `id` key, also to an id another node
\* has) there are as many Node chunks as node ids and as many Edge chunks as
\* (id, extra) pairs: no id and no pair occurs twice.
C28_DslKeepsChunksUnique ==
    /\ Cardinality(NodeIdsOf(chunks)) = Len(SelectSeq(chunks, LAMBDA c : c.kind = "node"))
    /\ Cardinality(EdgePairsOf(chunks)) = Len(SelectSeq(chunks, LAMBDA c : c.kind = "edge"))

NodeDeleted == last.cmd.action = "node_delete"

\* The chunk is the node, or an edge from or to it
Concerns(c, id) ==
    \/ c.kind = "node" /\ c.id = id
    \/ c.kind = "edge" /\ (c.id = id \/ c.extra = id)

EdgesOf(cs) == SelectSeq(cs, LAMBDA c : c.kind = "edge")

-----------------------------------------------------------------------------
(* Properties of NamedGraph                                                *)

NamedCalled(operation) == last.cmd[1] = operation

\* get_node_index(n) is Some(i) exactly when slot i holds a live node of
\* weight n
NameIndexConsistent(ng) ==
    \A n \in NodeNames, i \in 0 .. Len(ng.graph.nodes) :
        get_node_index(ng, n) = Some(i) <=> node_weight(ng.graph, i) = Some(n)

\* ensure_node on a name the index holds adds no node
EnsureNodeAddsNoSecond ==
    (NamedCalled("ensure_node") /\ last.cmd[2] \in DOMAIN last.before.name_map)
        => /\ named = last.before
           /\ Some(last.res) = get_node_index(last.before, last.cmd[2])

\* rename_node refuses a taken new name and an absent old name
RenameNodeRefuses ==
    (/\ NamedCalled("rename_node")
     /\ \/ last.cmd[3] \in DOMAIN last.before.name_map
        \/ last.cmd[2] \notin DOMAIN last.before.name_map)
        => last.res = FALSE /\ named = last.before

\* to_dot writes the node inside the cluster labelled with the subgraph
InSubgraph(ng, n, s) ==
    LET clusters == named_to_dot(ng)[1]
    IN  \E i \in DOMAIN clusters :
            /\ clusters[i][1] = s
            /\ \E k \in DOMAIN clusters[i][2] : clusters[i][2][k] = n

\* A node that to_dot wrote in a subgraph is written there under its new name
RenameKeepsSubgraph ==
    (NamedCalled("rename_node") /\ last.res = TRUE)
        => \A s \in SubgraphNames :
              InSubgraph(last.before, last.cmd[2], s) => InSubgraph(named, last.cmd[3], s)

\* C30: the name index and the live nodes of a NamedGraph stay in bijection
\* under ensure_node, add_edge_by_name, remove_node_by_name,
\* remove_edge_by_names, rename_node and set_node_subgraph; ensure_node on an
\* existing name adds no node; rename_node returns false and changes nothing
\* when the new name is taken or the old name is absent; and a node assigned
\* to a subgraph is still written in that subgraph by to_dot after a rename.
C30_NameIndexAndSubgraphsConsistent ==
    /\ NameIndexConsistent(named)
    /\ EnsureNodeAddsNoSecond
    /\ RenameNodeRefuses
    /\ RenameKeepsSubgraph

=============================================================================
